---- MODULE Spec2Model ----
(***************************************************************************)
(* Model of the translation and image-rewrite pipeline of                  *)
(* telegram-signals-parisng:                                               *)
(*   - the vision FallbackChain            (src/src/vision/fallback.py)    *)
(*   - the FlowTracker                     (src/src/state/flow_tracker.py) *)
(*   - translate_text_with_fallback        (src/src/translators/...)       *)
(*   - the signal / update handlers        (src/src/handlers/...)          *)
(* Each subsystem has its own specification (SpecChain, SpecFlow,          *)
(* SpecTrans, SpecCtl); the variables of the other subsystems stay at      *)
(* their initial values under it.                                          *)
(***************************************************************************)
EXTENDS Integers, Sequences, FiniteSets, TLC

VARIABLES
    \* ---- vision FallbackChain ----
    ch_given,        \* the providers handed to __init__: seq of [id, is_available]
    ch_providers,    \* self._providers (seq of provider ids)
    ch_max_retries,  \* self.max_retries
    ch_pc,           \* "absent" (no chain) | "ctor_raised" | "idle" | "trying"
                     \* | "returned" | "raised"
    ch_idx,          \* position of the outer loop in self._providers
    ch_attempt,      \* value of the inner loop variable `attempt`
    ch_calls,        \* log of provider.extract_text calls, in call order
    ch_result,       \* the VisionResult returned by extract_text
    ch_last_error,   \* local last_error
    ch_raised,       \* the error named by the raised VisionProviderError
    ch_abandoned,    \* TRUE while a provider call cut off by wait_for still runs
    \* ---- FlowTracker ----
    now,             \* time.time()
    active_flows,    \* _active_flows: signal_id -> FlowInfo
    operation_counter, \* _operation_counter
    ft_grant,        \* per signal: the start_flow not yet followed by
                     \* another start_flow / end_flow of that signal
    \* ---- translate_text_with_fallback ----
    tr_text,         \* argument text
    tr_use_cache,    \* argument use_cache
    tr_pc,           \* position inside the coroutine
    tr_cached,       \* local cached: what the cache lookup handed back
    tr_translated,   \* local translated
    tr_model_used,   \* local model_used
    tr_ret,          \* the value returned
    tr_calls,        \* log of provider calls made
    tr_cache,        \* translation_cache table: text -> translation
    tr_abandoned,    \* provider calls cut off by wait_for whose thread still runs
    \* ---- the translation semaphore shared by all items ----
    translation_semaphore, \* _translation_semaphore: None, or the Semaphore
    co_pc,           \* per item: position of its translate_text_with_fallback call
    late_calls,      \* provider calls cut off by wait_for whose thread still runs
    \* ---- SeamlessTextReplacer and the PaddleOCR subprocess ----
    PADDLEOCR_ENABLED,   \* module constant read from the environment
    paddleocr_disabled,  \* _paddleocr_disabled
    child,           \* the OCR subprocess: "none" | "running" | "exited"
                     \* | "terminated" (by SIGTERM) | "killed" (by SIGKILL)
    result_queue,    \* what the subprocess has put on the queue
    signals_sent,    \* signals sent to the subprocess
    ocr_pc,          \* position inside run_paddleocr_with_timeout
    ocr_ret,         \* its return value
    pi_args,         \* process_image_sync: the image file, translations, output_path
    pi_pc,           \* position inside process_image_sync
    pi_ret,          \* its return value
    pi_saved,        \* what process_image_sync wrote to output_path
    pi_error,        \* the exception caught at lines 685-687, if any
    \* ---- match_translations and the replacement loop on their own ----
    mt_boxes,        \* detected_boxes
    mt_translations, \* translations, in insertion order
    mt_pc,           \* "idle" | "match" | "replace" | "loop" | "done"
    mt_matched,      \* local matched: the list match_translations returned
    mt_replaced,     \* the matches the loop replaced; their rectangles are
                     \* processed_regions
    mt_k,            \* how many entries of matched the loop has been through
    mt_heap,         \* the bitmap objects: object i holds mt_heap[i], the edits
                     \* made to its pixels since the file was opened
    mt_result_image, \* local result_image: the object it is bound to, 0 before
    mt_samples,      \* the colours sampled so far, each with what it was read from
    \* ---- edit_image_text_sync / extract_text_from_image ----
    ex_chain,        \* get_vision_chain(): None or a chain
    ex_result,       \* the result of the chain the function returned from, or Unbound
    ex_ocr_result,   \* the lines of the direct Gemini response, Unbound before
    ex_pc,           \* "idle" | "chain" | "gemini" | "returned" | "replace" | "done"
    ex_translations, \* translations_list: pairs <<russian, english>>
    ex_dict,         \* translations_dict, in insertion order
    ex_matcher,      \* the translations match_translations was called with, or None
    \* ---- one item with media through its handler ----
    md_handler,      \* "handle_new_signal" | "handle_signal_update"
    md_pc,           \* "idle" | "download" | "gather" | "publish" | "record" |
                     \* "on_error" | "done" | "cancelled" | "returned"
    md_media_info,   \* None, or the downloaded file
    md_edit,         \* what the image editor did, Unbound before
    md_results,      \* results of gather: [translation, image], Unbound before
    md_status,       \* status of the item's record
    md_published,    \* Unbound, or the file sent with the message (None: no file)
    md_files,        \* the paths that exist in MEDIA_DOWNLOAD_DIR
    \* ---- FlowTracker called from two threads ----
    threads,         \* per thread: its call, its position in it and its locals
    th_start,        \* _active_flows and _operation_counter when the calls began
    \* ---- get_replacer called from two threads ----
    replacer_instance, \* _replacer_instance
    replacer_lock,   \* _replacer_lock
    callers,         \* per thread: its position in get_replacer and its locals
    \* ---- handlers and their collaborators ----
    signals,         \* signals table: seq of rows, id = position
    signal_updates,  \* signal_updates table: seq of rows, id = position
    published,       \* messages sent to the target group, id = position
    tasks,           \* handler tasks: task id -> local state of the coroutine
    allowed_users_list, \* config.allowed_users_list (empty: everybody)
    delivered        \* number of deliveries dispatched so far

chainVars == <<ch_given, ch_providers, ch_max_retries, ch_pc, ch_idx, ch_attempt,
               ch_calls, ch_result, ch_last_error, ch_raised, ch_abandoned>>
flowVars  == <<now, active_flows, operation_counter, ft_grant>>
transVars == <<tr_text, tr_use_cache, tr_pc, tr_cached, tr_translated, tr_model_used,
               tr_ret, tr_calls, tr_cache, tr_abandoned>>
ctlVars   == <<signals, signal_updates, published, tasks, delivered,
               allowed_users_list>>
semVars   == <<translation_semaphore, co_pc, late_calls>>
ocrVars   == <<PADDLEOCR_ENABLED, paddleocr_disabled, child, result_queue, signals_sent,
               ocr_pc, ocr_ret, pi_args, pi_pc, pi_ret, pi_saved, pi_error>>
matchVars == <<mt_boxes, mt_translations, mt_pc, mt_matched, mt_replaced, mt_k,
              mt_heap, mt_result_image, mt_samples>>
extractVars == <<ex_chain, ex_result, ex_ocr_result, ex_pc, ex_translations,
                 ex_dict, ex_matcher>>
mediaVars == <<md_handler, md_pc, md_media_info, md_edit, md_results,
               md_status, md_published, md_files>>
threadVars == <<threads, th_start>>
singletonVars == <<replacer_instance, replacer_lock, callers>>
vars      == <<chainVars, flowVars, transVars, ctlVars, semVars, ocrVars, matchVars,
               extractVars, mediaVars, threadVars, singletonVars>>

\* Python's None, for values that are records otherwise.
None == [kind |-> "None"]

Max(a, b) == IF a >= b THEN a ELSE b

(***************************************************************************)
(* Vision FallbackChain                                                    *)
(***************************************************************************)

\* Number of providers handed to the constructor.
NProviders == 3
\* Largest max_retries explored.
MaxRetries == 2

ProviderIds == 1..NProviders

\* The provider list taken as given, without the is_available filter.
AvailableProviders_Unfiltered(given) == [i \in 1..Len(given) |-> given[i].id]

\* [p for p in providers if p.is_available]
AvailableProviders(given) ==
    LET ids == [i \in 1..Len(given) |-> given[i].id]
        ok(i) == given[i].is_available
        F[i \in 0..Len(given)] ==
            IF i = 0 THEN <<>>
            ELSE IF ok(i) THEN Append(F[i - 1], ids[i]) ELSE F[i - 1]
    IN F[Len(given)]

\* FallbackChain.__init__
InitChain ==
    /\ ch_given \in {[i \in 1..NProviders |-> [id |-> i, is_available |-> a[i]]] :
                        a \in [1..NProviders -> BOOLEAN]}
    /\ ch_max_retries \in 0..MaxRetries
    /\ ch_providers = AvailableProviders(ch_given)
    /\ ch_pc = IF ch_providers = <<>> THEN "ctor_raised" ELSE "idle"
    /\ ch_idx = 0
    /\ ch_attempt = 0
    /\ ch_calls = <<>>
    /\ ch_result = None
    /\ ch_last_error = None
    /\ ch_raised = None
    /\ ch_abandoned = FALSE

\* extract_text entered: last_error = None, the loops at their first iteration.
ExtractTextStart ==
    /\ ch_pc = "idle"
    /\ ch_pc' = "trying"
    /\ ch_idx' = 1
    /\ ch_attempt' = 0
    /\ ch_last_error' = None
    /\ UNCHANGED <<ch_given, ch_providers, ch_max_retries, ch_calls, ch_result, ch_raised,
                   ch_abandoned>>

\* AfterFailure with last_error assigned only while it is still None.
AfterFailure_KeepsFirstError(err) ==
    /\ ch_last_error' = IF ch_last_error = None THEN err ELSE ch_last_error
    /\ IF ch_attempt < ch_max_retries
         THEN /\ ch_attempt' = ch_attempt + 1
              /\ UNCHANGED <<ch_idx, ch_pc, ch_raised>>
         ELSE IF ch_idx < Len(ch_providers)
           THEN /\ ch_idx' = ch_idx + 1
                /\ ch_attempt' = 0
                /\ UNCHANGED <<ch_pc, ch_raised>>
           ELSE /\ ch_pc' = "raised"
                /\ ch_raised' = ch_last_error'
                /\ UNCHANGED <<ch_idx, ch_attempt>>

\* AfterFailure with the inner loop over range(max_retries + 2).
AfterFailure_OneRetryMore(err) ==
    /\ ch_last_error' = err
    /\ IF ch_attempt <= ch_max_retries
         THEN /\ ch_attempt' = ch_attempt + 1
              /\ UNCHANGED <<ch_idx, ch_pc, ch_raised>>
         ELSE IF ch_idx < Len(ch_providers)
           THEN /\ ch_idx' = ch_idx + 1
                /\ ch_attempt' = 0
                /\ UNCHANGED <<ch_pc, ch_raised>>
           ELSE /\ ch_pc' = "raised"
                /\ ch_raised' = ch_last_error'
                /\ UNCHANGED <<ch_idx, ch_attempt>>

\* The loops after a failed attempt: next attempt, else next provider, else the
\* code after the loops, which raises VisionProviderError naming last_error.
AfterFailure(err) ==
    /\ ch_last_error' = err
    /\ IF ch_attempt < ch_max_retries
         THEN /\ ch_attempt' = ch_attempt + 1
              /\ UNCHANGED <<ch_idx, ch_pc, ch_raised>>
         ELSE IF ch_idx < Len(ch_providers)
           THEN /\ ch_idx' = ch_idx + 1
                /\ ch_attempt' = 0
                /\ UNCHANGED <<ch_pc, ch_raised>>
           ELSE /\ ch_pc' = "raised"
                /\ ch_raised' = ch_last_error'
                /\ UNCHANGED <<ch_idx, ch_attempt>>

\* AttemptSucceeds without the return: the result is kept and the loops go on.
AttemptSucceeds_NoReturn ==
    /\ ch_pc = "trying"
    /\ LET p == ch_providers[ch_idx] IN
         /\ ch_calls' = Append(ch_calls, [provider |-> p, attempt |-> ch_attempt, outcome |-> "ok"])
         /\ ch_result' = [kind |-> "VisionResult", provider |-> p, attempt |-> ch_attempt]
    /\ IF ch_idx < Len(ch_providers)
         THEN /\ ch_idx' = ch_idx + 1
              /\ ch_attempt' = 0
              /\ UNCHANGED ch_pc
         ELSE /\ ch_pc' = "returned"
              /\ UNCHANGED <<ch_idx, ch_attempt>>
    /\ UNCHANGED <<ch_given, ch_providers, ch_max_retries, ch_last_error, ch_raised,
                   ch_abandoned>>

\* An attempt whose awaited provider call completes in time: return result.
AttemptSucceeds ==
    /\ ch_pc = "trying"
    /\ LET p == ch_providers[ch_idx] IN
         /\ ch_calls' = Append(ch_calls, [provider |-> p, attempt |-> ch_attempt, outcome |-> "ok"])
         /\ ch_result' = [kind |-> "VisionResult", provider |-> p, attempt |-> ch_attempt]
    /\ ch_pc' = "returned"
    /\ UNCHANGED <<ch_given, ch_providers, ch_max_retries, ch_idx, ch_attempt,
                   ch_last_error, ch_raised, ch_abandoned>>

\* An attempt that asyncio.wait_for cuts off: except asyncio.TimeoutError.
\* wait_for cancels the awaited provider coroutine; the request it had handed
\* to a worker thread (asyncio.to_thread in the provider) cannot be cancelled
\* and may go on running.
AttemptTimesOut ==
    /\ ch_pc = "trying"
    /\ LET p == ch_providers[ch_idx] IN
         /\ ch_calls' = Append(ch_calls, [provider |-> p, attempt |-> ch_attempt, outcome |-> "timeout"])
         /\ AfterFailure([kind |-> "TimeoutError", provider |-> p, attempt |-> ch_attempt])
         /\ ch_abandoned' \in {ch_abandoned, TRUE}
    /\ UNCHANGED <<ch_given, ch_providers, ch_max_retries, ch_result>>

\* An attempt in which the provider raises: except Exception as e.
AttemptRaises ==
    /\ ch_pc = "trying"
    /\ LET p == ch_providers[ch_idx] IN
         /\ ch_calls' = Append(ch_calls, [provider |-> p, attempt |-> ch_attempt, outcome |-> "error"])
         /\ AfterFailure([kind |-> "Exception", provider |-> p, attempt |-> ch_attempt])
    /\ UNCHANGED <<ch_given, ch_providers, ch_max_retries, ch_result, ch_abandoned>>

\* The last cut-off provider call still running comes to its end: nobody
\* awaits it any more, so what it produced is dropped.
ChainAbandonedCompletes ==
    /\ ch_abandoned
    /\ ch_abandoned' = FALSE
    /\ UNCHANGED <<ch_given, ch_providers, ch_max_retries, ch_pc, ch_idx, ch_attempt,
                   ch_calls, ch_result, ch_last_error, ch_raised>>

ChainFrame == UNCHANGED <<flowVars, transVars, ctlVars, semVars, ocrVars, matchVars,
                        extractVars, mediaVars, threadVars, singletonVars>>

NextChain ==
    \/ ExtractTextStart /\ ChainFrame
    \/ AttemptSucceeds /\ ChainFrame
    \/ AttemptTimesOut /\ ChainFrame
    \/ AttemptRaises /\ ChainFrame
    \/ ChainAbandonedCompletes /\ ChainFrame

(***************************************************************************)
(* FlowTracker                                                             *)
(***************************************************************************)

\* The source's FLOW_TTL (259200 s), MAX_FLOWS (10000) and CLEANUP_INTERVAL
\* (100) are scaled down to these values; the clock counts ticks.
FlowTtlTicks == 1
MaxFlowsCap == 2
CleanupEvery == 3
\* The clock stops at MaxTime ticks.
MaxTime == 2
\* Number of user ids.
NUsers == 2

FLOW_TTL == FlowTtlTicks
MAX_FLOWS == MaxFlowsCap
CLEANUP_INTERVAL == CleanupEvery

\* One signal id more than the cap, so that the cap can be exceeded.
SignalIds == 1..(MAX_FLOWS + 1)
UserIds == 1..NUsers

\* FlowInfo(user_id, timestamp)
FlowInfo(u, t) == [user_id |-> u, timestamp |-> t]

\* The expiry test with >= in place of >.
IsExpired_AtTtl(flow, t) == t - flow.timestamp >= FLOW_TTL

\* time.time() - flow.timestamp > FLOW_TTL
IsExpired(flow, t) == t - flow.timestamp > FLOW_TTL

\* del _active_flows[k] for every k in ks
DelFlows(flows, ks) == [k \in (DOMAIN flows) \ ks |-> flows[k]]

\* cleanup_expired: the map without the flows whose age exceeds the TTL.
cleanup_expired(flows, t) ==
    DelFlows(flows, {k \in DOMAIN flows : IsExpired(flows[k], t)})

\* _force_cleanup removing len // 10 flows, without the max(1, ...).
force_cleanup_TenthOnly(flows, newest) ==
    IF Cardinality(DOMAIN flows) <= MAX_FLOWS THEN {flows}
    ELSE LET n == Cardinality(DOMAIN flows)
             to_remove == n \div 10
             Prefixes == {R \in SUBSET (DOMAIN flows) :
                            /\ Cardinality(R) = to_remove
                            /\ \A r \in R : \A k \in (DOMAIN flows) \ R :
                                 flows[r].timestamp <= flows[k].timestamp}
         IN {DelFlows(flows, R) : R \in Prefixes}

\* _force_cleanup: the possible results of removing the first
\* max(1, len // 10) flows of the map sorted by timestamp.  The sort is stable
\* and the map keeps insertion order, which the model does not track: flows of
\* equal timestamp may be removed in any order, except that `newest`, the key
\* start_flow has just inserted, comes last among its equals.
force_cleanup(flows, newest) ==
    IF Cardinality(DOMAIN flows) <= MAX_FLOWS THEN {flows}
    ELSE LET n == Cardinality(DOMAIN flows)
             to_remove == Max(1, n \div 10)
             Before(a, b) == \/ flows[a].timestamp < flows[b].timestamp
                             \/ /\ flows[a].timestamp = flows[b].timestamp
                                /\ b = newest /\ a # newest
             Prefixes == {R \in SUBSET (DOMAIN flows) :
                            /\ Cardinality(R) = to_remove
                            /\ \A r \in R : \A k \in (DOMAIN flows) \ R : ~Before(k, r)}
         IN {DelFlows(flows, R) : R \in Prefixes}

\* get_flow_owner without the del of an expired flow.
get_flow_owner_NoEvict(flows, signal_id, t) ==
    IF signal_id \notin DOMAIN flows
      THEN [ret |-> None, flows |-> flows]
    ELSE IF IsExpired(flows[signal_id], t)
      THEN [ret |-> None, flows |-> flows]
    ELSE [ret |-> [kind |-> "user", id |-> flows[signal_id].user_id], flows |-> flows]

\* get_flow_owner: the value returned and the map afterwards.
get_flow_owner(flows, signal_id, t) ==
    IF signal_id \notin DOMAIN flows
      THEN [ret |-> None, flows |-> flows]
    ELSE IF IsExpired(flows[signal_id], t)
      THEN [ret |-> None, flows |-> DelFlows(flows, {signal_id})]
    ELSE [ret |-> [kind |-> "user", id |-> flows[signal_id].user_id], flows |-> flows]

\* is_allowed: the value returned and the map afterwards.
is_allowed(flows, signal_id, user_id, t) ==
    LET got == get_flow_owner(flows, signal_id, t)
    IN [ret   |-> IF got.ret = None THEN TRUE ELSE got.ret.id = user_id,
        flows |-> got.flows]

\* SweepIfDue sweeping at every call.
SweepIfDue_Always(flows, counter, t) == cleanup_expired(flows, t)

\* The map after the periodic sweep of start_flow, when the counter reached
\* CLEANUP_INTERVAL.
SweepIfDue(flows, counter, t) ==
    IF counter >= CLEANUP_INTERVAL THEN cleanup_expired(flows, t) ELSE flows

\* The possible maps after the forced cleanup of start_flow.
ForceIfOver(flows, newest) ==
    IF Cardinality(DOMAIN flows) > MAX_FLOWS THEN force_cleanup(flows, newest) ELSE {flows}

\* Bookkeeping of the grants: a signal's grant is the start_flow that no later
\* start_flow or end_flow of that signal has replaced, while its age is within
\* the TTL; `forced` records that a forced cleanup removed the flow since.
GrantsAfter(grants, beforeForce, afterForce) ==
    [k \in SignalIds |->
        IF grants[k] # None /\ k \in DOMAIN beforeForce /\ k \notin DOMAIN afterForce
          THEN [grants[k] EXCEPT !.forced = TRUE]
          ELSE grants[k]]

\* start_flow(signal_id, user_id)
start_flow(signal_id, user_id) ==
    LET flows1   == [k \in (DOMAIN active_flows) \cup {signal_id} |->
                        IF k = signal_id THEN FlowInfo(user_id, now) ELSE active_flows[k]]
        counter1 == operation_counter + 1
        flows2   == SweepIfDue(flows1, counter1, now)
        grants1  == [ft_grant EXCEPT ![signal_id] =
                        [kind |-> "grant", user_id |-> user_id, timestamp |-> now,
                         forced |-> FALSE]]
    IN /\ operation_counter' = IF counter1 >= CLEANUP_INTERVAL THEN 0 ELSE counter1
       /\ \E flows3 \in ForceIfOver(flows2, signal_id) :
            /\ active_flows' = flows3
            /\ ft_grant' = GrantsAfter(grants1, flows2, flows3)
       /\ UNCHANGED now

\* A call of get_flow_owner(signal_id).
GetFlowOwner(signal_id) ==
    LET got == get_flow_owner(active_flows, signal_id, now)
    IN /\ active_flows' = got.flows
       /\ UNCHANGED <<now, operation_counter, ft_grant>>

\* A call of is_allowed(signal_id, user_id).
IsAllowed(signal_id, user_id) ==
    LET got == is_allowed(active_flows, signal_id, user_id, now)
    IN /\ active_flows' = got.flows
       /\ UNCHANGED <<now, operation_counter, ft_grant>>

\* ended emptying the whole map.
ended_ClearsAll(flows, signal_id) == [k \in {} |-> FlowInfo(0, 0)]

\* Lines 137-139 of end_flow: the map without signal_id, if it was in it.
ended(flows, signal_id) ==
    IF signal_id \in DOMAIN flows THEN DelFlows(flows, {signal_id}) ELSE flows

\* end_flow(signal_id)
end_flow(signal_id) ==
    /\ active_flows' = ended(active_flows, signal_id)
    /\ ft_grant' = [ft_grant EXCEPT ![signal_id] = None]
    /\ UNCHANGED <<now, operation_counter>>

\* A direct call of cleanup_expired().
CleanupExpired ==
    /\ active_flows' = cleanup_expired(active_flows, now)
    /\ UNCHANGED <<now, operation_counter, ft_grant>>

\* The clock advances.  A grant whose age now exceeds the TTL is over.
Tick ==
    /\ now < MaxTime
    /\ now' = now + 1
    /\ ft_grant' = [k \in SignalIds |->
                      IF ft_grant[k] # None /\ (now + 1) - ft_grant[k].timestamp > FLOW_TTL
                        THEN None ELSE ft_grant[k]]
    /\ UNCHANGED <<active_flows, operation_counter>>

InitFlow ==
    /\ now = 0
    /\ active_flows = [k \in {} |-> FlowInfo(0, 0)]
    /\ operation_counter = 0
    /\ ft_grant = [k \in SignalIds |-> None]

FlowFrame == UNCHANGED <<chainVars, transVars, ctlVars, semVars, ocrVars, matchVars,
                        extractVars, mediaVars, threadVars, singletonVars>>

NextFlow ==
    \/ \E s \in SignalIds, u \in UserIds : start_flow(s, u) /\ FlowFrame
    \/ \E s \in SignalIds : GetFlowOwner(s) /\ FlowFrame
    \/ \E s \in SignalIds, u \in UserIds : IsAllowed(s, u) /\ FlowFrame
    \/ \E s \in SignalIds : end_flow(s) /\ FlowFrame
    \/ CleanupExpired /\ FlowFrame
    \/ Tick /\ FlowFrame

(***************************************************************************)
(* translate_text_with_fallback                                            *)
(***************************************************************************)

Str(x) == [kind |-> "str", v |-> x]

\* The texts handed to the translator: empty, blank, and two messages.
Texts == {"", " ", "ru-1", "ru-2"}

\* not text or not text.strip()
IsBlank(text) == text \in {"", " "}

\* What the Gemini API does in one call of gemini_translate.
GeminiApi == {"text", "none_response", "no_text", "empty_text", "raises"}
\* What googletrans does in one call of google_translate.
GoogleApi == {"text", "empty_text", "none_result", "no_text", "raises"}

\* gemini_translate(text): every failure is caught inside and becomes None.
gemini_translate(text, api) ==
    IF IsBlank(text) THEN Str(text)
    ELSE IF api = "text" THEN Str("en-gemini")
    ELSE None

\* google_translate(text): result.text, and None for every failure.
google_translate(text, api) ==
    IF IsBlank(text) THEN Str(text)
    ELSE IF api = "text" THEN Str("en-google")
    ELSE IF api = "empty_text" THEN Str("")
    ELSE None

\* Python truthiness of an Optional[str].
Truthy(x) == x # None /\ x.v # ""

\* A local that no assignment has reached yet.
Unbound == [kind |-> "unbound"]

\* The cache as earlier calls left it: lines 110-113 store non-empty
\* translations of non-blank texts only.
InitTrans ==
    /\ tr_text \in Texts
    /\ tr_use_cache \in BOOLEAN
    /\ tr_cache \in [Texts -> {None, Str("en-cached")}]
    /\ \A t \in Texts : (t # tr_text \/ IsBlank(t)) => tr_cache[t] = None
    /\ tr_pc = "entry"
    /\ tr_cached = Unbound
    /\ tr_translated = None
    /\ tr_model_used = None
    /\ tr_ret = None
    /\ tr_calls = <<>>
    /\ tr_abandoned = {}

TrFrame == UNCHANGED <<tr_text, tr_use_cache, tr_cached>>

\* Lines 55-59: blank text is returned as it is.
TrEntry ==
    /\ tr_pc = "entry"
    /\ IF IsBlank(tr_text)
         THEN /\ tr_pc' = "done"
              /\ tr_ret' = Str(tr_text)
         ELSE /\ tr_pc' = IF tr_use_cache THEN "cache_lookup" ELSE "gemini"
              /\ UNCHANGED tr_ret
    /\ TrFrame
    /\ UNCHANGED tr_abandoned
    /\ UNCHANGED <<tr_translated, tr_model_used, tr_calls, tr_cache>>

\* TrCacheLookup letting the exception of a failing lookup out.
TrCacheLookup_Unguarded(raises) ==
    /\ tr_pc = "cache_lookup"
    /\ tr_cached' = IF raises THEN tr_cached ELSE tr_cache[tr_text]
    /\ IF ~raises /\ Truthy(tr_cache[tr_text])
         THEN /\ tr_pc' = "done"
              /\ tr_ret' = tr_cache[tr_text]
         ELSE /\ tr_pc' = IF raises THEN "done" ELSE "gemini"
              /\ UNCHANGED tr_ret
    /\ UNCHANGED <<tr_text, tr_use_cache>>
    /\ UNCHANGED tr_abandoned
    /\ UNCHANGED <<tr_translated, tr_model_used, tr_calls, tr_cache>>

\* Lines 62-70: the cache lookup; a raising lookup is skipped.
TrCacheLookup(raises) ==
    /\ tr_pc = "cache_lookup"
    /\ tr_cached' = IF raises THEN tr_cached ELSE tr_cache[tr_text]
    /\ IF ~raises /\ Truthy(tr_cache[tr_text])
         THEN /\ tr_pc' = "done"
              /\ tr_ret' = tr_cache[tr_text]
         ELSE /\ tr_pc' = "gemini"
              /\ UNCHANGED tr_ret
    /\ UNCHANGED <<tr_text, tr_use_cache>>
    /\ UNCHANGED tr_abandoned
    /\ UNCHANGED <<tr_translated, tr_model_used, tr_calls, tr_cache>>

\* Lines 79-93: Gemini under wait_for; `how` is "in_time", "timeout" (wait_for
\* raises TimeoutError) or "error" (the awaited call raises).
TrGemini(how, api) ==
    /\ tr_pc = "gemini"
    /\ tr_calls' = Append(tr_calls, "gemini")
    /\ IF how = "in_time"
         THEN /\ tr_translated' = gemini_translate(tr_text, api)
              /\ tr_model_used' = Str("gemini")
         ELSE UNCHANGED <<tr_translated, tr_model_used>>
    /\ tr_pc' = "after_gemini"
    /\ tr_abandoned' = IF how = "timeout" THEN tr_abandoned \cup {"gemini"}
                                          ELSE tr_abandoned
    /\ TrFrame
    /\ UNCHANGED <<tr_ret, tr_cache>>

\* TrAfterGemini going on to Google Translate whatever Gemini yielded.
TrAfterGemini_AlwaysGoogle ==
    /\ tr_pc = "after_gemini"
    /\ tr_pc' = "google"
    /\ TrFrame
    /\ UNCHANGED tr_abandoned
    /\ UNCHANGED <<tr_translated, tr_model_used, tr_ret, tr_calls, tr_cache>>

\* Line 96: if translated is None, go on to Google Translate.
TrAfterGemini ==
    /\ tr_pc = "after_gemini"
    /\ tr_pc' = IF tr_translated = None THEN "google" ELSE "cache_write"
    /\ TrFrame
    /\ UNCHANGED tr_abandoned
    /\ UNCHANGED <<tr_translated, tr_model_used, tr_ret, tr_calls, tr_cache>>

\* Lines 97-107: Google Translate under wait_for; a timeout or a raised error
\* returns the original text.
TrGoogle(how, api) ==
    /\ tr_pc = "google"
    /\ tr_calls' = Append(tr_calls, "google_translate")
    /\ IF how = "in_time"
         THEN /\ tr_translated' = google_translate(tr_text, api)
              /\ tr_model_used' = Str("google_translate")
              /\ tr_pc' = "cache_write"
              /\ UNCHANGED tr_ret
         ELSE /\ tr_pc' = "done"
              /\ tr_ret' = Str(tr_text)
              /\ UNCHANGED <<tr_translated, tr_model_used>>
    /\ tr_abandoned' = IF how = "timeout" THEN tr_abandoned \cup {"google_translate"}
                                          ELSE tr_abandoned
    /\ TrFrame
    /\ UNCHANGED tr_cache

\* Lines 110-118: the optional cache write, then return translated.
TrCacheWriteAndReturn(raises) ==
    /\ tr_pc = "cache_write"
    /\ IF tr_use_cache /\ Truthy(tr_translated) /\ Truthy(tr_model_used) /\ ~raises
         THEN tr_cache' = [tr_cache EXCEPT ![tr_text] = tr_translated]
         ELSE UNCHANGED tr_cache
    /\ tr_ret' = tr_translated
    /\ tr_pc' = "done"
    /\ TrFrame
    /\ UNCHANGED tr_abandoned
    /\ UNCHANGED <<tr_translated, tr_model_used, tr_calls>>

\* TrAbandonedCompletes handing what the thread produced to the coroutine.
TrAbandonedCompletes_Delivers(p) ==
    /\ p \in tr_abandoned
    /\ tr_abandoned' = tr_abandoned \ {p}
    /\ tr_translated' = Str("en-late")
    /\ tr_ret' = IF tr_pc = "done" THEN Str("en-late") ELSE tr_ret
    /\ TrFrame
    /\ UNCHANGED <<tr_pc, tr_model_used, tr_calls, tr_cache>>

\* Lines 81-84, 98-101: the worker thread of a call that wait_for gave up on
\* comes to its end; the future wait_for cancelled drops what it hands back.
TrAbandonedCompletes(p) ==
    /\ p \in tr_abandoned
    /\ tr_abandoned' = tr_abandoned \ {p}
    /\ TrFrame
    /\ UNCHANGED <<tr_pc, tr_translated, tr_model_used, tr_ret, tr_calls, tr_cache>>

WaitFor == {"in_time", "timeout", "error"}

\* The two providers of the translation chain, as named in model_used.
TrProviders == {"gemini", "google_translate"}

TransFrame == UNCHANGED <<chainVars, flowVars, ctlVars, semVars, ocrVars, matchVars,
                        extractVars, mediaVars, threadVars, singletonVars>>

NextTrans ==
    \/ TrEntry /\ TransFrame
    \/ \E raises \in BOOLEAN : TrCacheLookup(raises) /\ TransFrame
    \/ \E how \in WaitFor, api \in GeminiApi : TrGemini(how, api) /\ TransFrame
    \/ TrAfterGemini /\ TransFrame
    \/ \E how \in WaitFor, api \in GoogleApi : TrGoogle(how, api) /\ TransFrame
    \/ \E raises \in BOOLEAN : TrCacheWriteAndReturn(raises) /\ TransFrame
    \/ \E p \in TrProviders : TrAbandonedCompletes(p) /\ TransFrame

(***************************************************************************)
(* Signal and update handlers                                              *)
(***************************************************************************)

\* Number of deliveries (handler tasks) in one run.
MaxDeliveries == 2

\* Messages of the source group.  sender_id 0 stands for an unidentified
\* sender, reply_to_msg_id 0 for None.  All messages are in the one source
\* chat the reader listens to, so rows are keyed by the message id alone.
Msg(id, sender, sig, isReply, replyTo) ==
    [id |-> id, sender_id |-> sender, is_signal |-> sig,
     is_reply |-> isReply, reply_to_msg_id |-> replyTo]

Messages ==
    { Msg(1, 1, TRUE,  FALSE, 0),    \* a signal of user 1
      Msg(2, 1, FALSE, TRUE,  1),    \* its author replies to it
      Msg(3, 2, FALSE, TRUE,  1),    \* another user replies to it
      Msg(4, 1, FALSE, TRUE,  7),    \* a reply to a message that is no signal
      Msg(5, 1, FALSE, TRUE,  0) }   \* a reply without reply_to_msg_id

\* Message ids of the target group live in their own space.
TargetMsgId(n) == 100 + n

SignalRow(id, m, status, target) ==
    [id |-> id, source_message_id |-> m.id, source_user_id |-> m.sender_id,
     status |-> status, target_message_id |-> target]

UpdateRow(id, m, signal_id, status, target) ==
    [id |-> id, signal_id |-> signal_id, source_message_id |-> m.id,
     source_user_id |-> m.sender_id, status |-> status, target_message_id |-> target]

Rows(table) == {table[i] : i \in 1..Len(table)}

\* db_find_signal_by_source_msg / db_find_update_by_source_msg: the rows a
\* SELECT ... WHERE source_message_id = $2 may hand to fetchrow.
FindBySourceMsg(table, msg_id) == {r \in Rows(table) : r.source_message_id = msg_id}

\* The tables' definition: whether the table takes `row`.  The persistence
\* contract is insert(record) -> id, with no uniqueness rule on the source
\* message, and the INSERT statements carry no ON CONFLICT clause.
TableAccepts(table, row) == TRUE

\* db_insert_signal / db_insert_signal_update: a plain INSERT ... RETURNING id.
DbInsert(table, row) == Append(table, row)

\* db_update_signal / db_update_signal_update: UPDATE ... WHERE id = $n.
\* DbUpdate that stores the target message id and leaves the status as it was.
DbUpdate_KeepsStatus(table, id, status, target) ==
    [table EXCEPT ![id].target_message_id = target]

DbUpdate(table, id, status, target) ==
    [table EXCEPT ![id].status = status, ![id].target_message_id = target]

\* A handler coroutine: pc is its position ("done": it returned, "crashed":
\* it ended with an exception, which _task_done_callback logs);
\* publish_failed tells that its send_message raised or timed out.
Task(handler, m) ==
    [handler |-> handler, msg |-> m, pc |-> "find", rec_id |-> 0, parent |-> None,
     publish_failed |-> FALSE]

TaskIds == 1..Len(tasks)

SetTask(t, new) == tasks' = [tasks EXCEPT ![t] = new]

\* on_new_message testing message.is_reply before is_signal.
Dispatch_ReplyFirst(m) ==
    /\ delivered < MaxDeliveries
    /\ \A t \in TaskIds : tasks[t].msg.id <= m.id
    /\ delivered' = delivered + 1
    /\ IF m.is_reply
         THEN tasks' = Append(tasks, Task("handle_signal_update", m))
         ELSE IF m.is_signal
           THEN tasks' = Append(tasks, Task("handle_new_signal", m))
           ELSE UNCHANGED tasks
    /\ UNCHANGED <<signals, signal_updates, published, flowVars>>

\* main.on_new_message: a signal text starts handle_new_signal, any other
\* reply starts handle_signal_update, everything else is dropped.  Events reach
\* the reader in the order of their message ids (a redelivery repeats an id);
\* a task may stay at its first step for any time, so the handlers still
\* interleave in every way.
Dispatch(m) ==
    /\ delivered < MaxDeliveries
    /\ \A t \in TaskIds : tasks[t].msg.id <= m.id
    /\ delivered' = delivered + 1
    /\ IF m.is_signal
         THEN tasks' = Append(tasks, Task("handle_new_signal", m))
         ELSE IF m.is_reply
           THEN tasks' = Append(tasks, Task("handle_signal_update", m))
           ELSE UNCHANGED tasks
    /\ UNCHANGED <<signals, signal_updates, published, flowVars>>

\* ---------------- handle_new_signal ----------------

\* Lines 44-65: the idempotency lookup (outside the try: if it raises, the
\* task dies with the exception), then the allowed-users check.
SigFind(t) ==
    LET T == tasks[t] IN
    /\ T.handler = "handle_new_signal" /\ T.pc = "find"
    /\ \/ /\ FindBySourceMsg(signals, T.msg.id) # {}
          /\ SetTask(t, [T EXCEPT !.pc = "done"])
       \/ /\ FindBySourceMsg(signals, T.msg.id) = {}
          /\ IF allowed_users_list # {} /\ T.msg.sender_id \notin allowed_users_list
               THEN SetTask(t, [T EXCEPT !.pc = "done"])
               ELSE SetTask(t, [T EXCEPT !.pc = "insert"])
       \/ SetTask(t, [T EXCEPT !.pc = "crashed"])
    /\ UNCHANGED <<signals, signal_updates, published, delivered, flowVars>>

\* SigInsert calling start_flow whoever the sender is.
SigInsert_AlwaysStartsFlow(t) ==
    LET T == tasks[t]
        id == Len(signals) + 1
    IN
    /\ T.handler = "handle_new_signal" /\ T.pc = "insert"
    /\ \/ /\ TableAccepts(signals, SignalRow(id, T.msg, "PENDING", 0))
          /\ signals' = DbInsert(signals, SignalRow(id, T.msg, "PENDING", 0))
          /\ SetTask(t, [T EXCEPT !.pc = "processing", !.rec_id = id])
          /\ start_flow(id, T.msg.sender_id)
       \/ /\ SetTask(t, [T EXCEPT !.pc = "on_error"])      \* the INSERT raises
          /\ UNCHANGED <<signals, flowVars>>
    /\ UNCHANGED <<signal_updates, published, delivered>>

\* SigInsert without the call of start_flow.
SigInsert_NoFlow(t) ==
    LET T == tasks[t]
        id == Len(signals) + 1
    IN
    /\ T.handler = "handle_new_signal" /\ T.pc = "insert"
    /\ \/ /\ TableAccepts(signals, SignalRow(id, T.msg, "PENDING", 0))
          /\ signals' = DbInsert(signals, SignalRow(id, T.msg, "PENDING", 0))
          /\ SetTask(t, [T EXCEPT !.pc = "processing", !.rec_id = id])
          /\ UNCHANGED flowVars
       \/ /\ SetTask(t, [T EXCEPT !.pc = "on_error"])
          /\ UNCHANGED <<signals, flowVars>>
    /\ UNCHANGED <<signal_updates, published, delivered>>

\* Lines 72-86: insert the PENDING row, then start_flow for an identified sender.
SigInsert(t) ==
    LET T == tasks[t]
        id == Len(signals) + 1
    IN
    /\ T.handler = "handle_new_signal" /\ T.pc = "insert"
    /\ \/ /\ TableAccepts(signals, SignalRow(id, T.msg, "PENDING", 0))
          /\ signals' = DbInsert(signals, SignalRow(id, T.msg, "PENDING", 0))
          /\ SetTask(t, [T EXCEPT !.pc = "processing", !.rec_id = id])
          /\ IF T.msg.sender_id > 0
               THEN start_flow(id, T.msg.sender_id)
               ELSE UNCHANGED flowVars
       \/ /\ SetTask(t, [T EXCEPT !.pc = "on_error"])      \* the INSERT raises
          /\ UNCHANGED <<signals, flowVars>>
    /\ UNCHANGED <<signal_updates, published, delivered>>

\* Line 89: the row becomes PROCESSING.
SigProcessing(t) ==
    LET T == tasks[t] IN
    /\ T.handler = "handle_new_signal" /\ T.pc = "processing"
    /\ \/ /\ signals' = [signals EXCEPT ![T.rec_id].status = "PROCESSING"]
          /\ SetTask(t, [T EXCEPT !.pc = "prepare"])
       \/ /\ SetTask(t, [T EXCEPT !.pc = "on_error"])
          /\ UNCHANGED signals                             \* the UPDATE raises
    /\ UNCHANGED <<signal_updates, published, delivered, flowVars>>

\* Lines 92-167: parse, download, translation and image edit under gather.
\* When gather hands back an exception for the translation, the row gets
\* ERROR_TRANSLATION_FAILED and the handler goes on with the original text.
SigPrepare(t) ==
    LET T == tasks[t] IN
    /\ T.handler = "handle_new_signal" /\ T.pc = "prepare"
    /\ \/ /\ SetTask(t, [T EXCEPT !.pc = "publish"])
          /\ UNCHANGED signals
       \/ /\ signals' = [signals EXCEPT ![T.rec_id].status = "ERROR_TRANSLATION_FAILED"]
          /\ SetTask(t, [T EXCEPT !.pc = "publish"])
       \/ /\ SetTask(t, [T EXCEPT !.pc = "on_error"])
          /\ UNCHANGED signals                             \* a step raises
    /\ UNCHANGED <<signal_updates, published, delivered, flowVars>>

\* SigPublish with send_message outside the try block.
SigPublish_Unguarded(t) ==
    LET T == tasks[t] IN
    /\ T.handler = "handle_new_signal" /\ T.pc = "publish"
    /\ \/ /\ published' = Append(published,
                [id |-> TargetMsgId(Len(published) + 1), reply_to |-> 0,
                 source_message_id |-> T.msg.id, task |-> t])
          /\ SetTask(t, [T EXCEPT !.pc = "record"])
       \/ /\ SetTask(t, [T EXCEPT !.pc = "crashed", !.publish_failed = TRUE])
          /\ UNCHANGED published
    /\ UNCHANGED <<signals, signal_updates, delivered, flowVars>>

\* Lines 170-184: send_message to the target group, no reply_to.
SigPublish(t) ==
    LET T == tasks[t] IN
    /\ T.handler = "handle_new_signal" /\ T.pc = "publish"
    /\ \/ /\ published' = Append(published,
                [id |-> TargetMsgId(Len(published) + 1), reply_to |-> 0,
                 source_message_id |-> T.msg.id, task |-> t])
          /\ SetTask(t, [T EXCEPT !.pc = "record"])
       \/ /\ SetTask(t, [T EXCEPT !.pc = "on_error", !.publish_failed = TRUE])      \* error or timeout
          /\ UNCHANGED published
    /\ UNCHANGED <<signals, signal_updates, delivered, flowVars>>

\* The id of the message task t has posted.
PostedBy(t) == (CHOOSE p \in Rows(published) : p.task = t).id

\* Lines 190-199: the row becomes POSTED with the target message id.
SigRecord(t) ==
    LET T == tasks[t] IN
    /\ T.handler = "handle_new_signal" /\ T.pc = "record"
    /\ \/ /\ signals' = DbUpdate(signals, T.rec_id, "POSTED", PostedBy(t))
          /\ SetTask(t, [T EXCEPT !.pc = "done"])
       \/ /\ SetTask(t, [T EXCEPT !.pc = "on_error"])      \* the UPDATE raises
          /\ UNCHANGED signals
    /\ UNCHANGED <<signal_updates, published, delivered, flowVars>>

\* SigOnError with an except branch that only logs.
SigOnError_LogOnly(t) ==
    LET T == tasks[t] IN
    /\ T.handler = "handle_new_signal" /\ T.pc = "on_error"
    /\ SetTask(t, [T EXCEPT !.pc = "done"])
    /\ UNCHANGED <<signals, signal_updates, published, delivered, flowVars>>

\* Lines 201-211: except Exception: the row, if any, gets ERROR_POSTING_FAILED.
SigOnError(t) ==
    LET T == tasks[t] IN
    /\ T.handler = "handle_new_signal" /\ T.pc = "on_error"
    /\ \/ /\ IF T.rec_id # 0
               THEN signals' = [signals EXCEPT ![T.rec_id].status = "ERROR_POSTING_FAILED"]
               ELSE UNCHANGED signals
          /\ SetTask(t, [T EXCEPT !.pc = "done"])
       \/ /\ T.rec_id # 0                                  \* the UPDATE raises
          /\ UNCHANGED signals
          /\ SetTask(t, [T EXCEPT !.pc = "crashed"])
    /\ UNCHANGED <<signal_updates, published, delivered, flowVars>>

\* ---------------- handle_signal_update ----------------

\* Lines 49-67: the idempotency lookup (outside the try: if it raises, the
\* task dies with the exception), then the reply_to_msg_id check.
UpdFind(t) ==
    LET T == tasks[t] IN
    /\ T.handler = "handle_signal_update" /\ T.pc = "find"
    /\ \/ IF FindBySourceMsg(signal_updates, T.msg.id) # {}
            THEN SetTask(t, [T EXCEPT !.pc = "done"])
            ELSE IF T.msg.reply_to_msg_id = 0
              THEN SetTask(t, [T EXCEPT !.pc = "done"])
              ELSE SetTask(t, [T EXCEPT !.pc = "find_parent"])
       \/ SetTask(t, [T EXCEPT !.pc = "crashed"])
    /\ UNCHANGED <<signals, signal_updates, published, delivered, flowVars>>

\* UpdFindParent without the target_message_id check.
UpdFindParent_NoPostedCheck(t) ==
    LET T == tasks[t]
        found == FindBySourceMsg(signals, T.msg.reply_to_msg_id)
    IN
    /\ T.handler = "handle_signal_update" /\ T.pc = "find_parent"
    /\ \/ /\ found = {}
          /\ SetTask(t, [T EXCEPT !.pc = "done"])
       \/ \E parent_signal \in found :
            SetTask(t, [T EXCEPT !.pc = "insert", !.parent = parent_signal])
       \/ SetTask(t, [T EXCEPT !.pc = "on_error"])         \* the lookup raises
    /\ UNCHANGED <<signals, signal_updates, published, delivered, flowVars>>

\* Lines 69-91: the parent lookup; an unknown or unposted parent ends the task.
UpdFindParent(t) ==
    LET T == tasks[t]
        found == FindBySourceMsg(signals, T.msg.reply_to_msg_id)
    IN
    /\ T.handler = "handle_signal_update" /\ T.pc = "find_parent"
    /\ \/ /\ found = {}
          /\ SetTask(t, [T EXCEPT !.pc = "done"])
       \/ \E parent_signal \in found :
            IF parent_signal.target_message_id = 0
              THEN SetTask(t, [T EXCEPT !.pc = "done"])
              ELSE SetTask(t, [T EXCEPT !.pc = "insert", !.parent = parent_signal])
       \/ SetTask(t, [T EXCEPT !.pc = "on_error"])         \* the lookup raises
    /\ UNCHANGED <<signals, signal_updates, published, delivered, flowVars>>

\* Lines 94-104: insert the PROCESSING update row.
UpdInsert(t) ==
    LET T == tasks[t]
        id == Len(signal_updates) + 1
    IN
    /\ T.handler = "handle_signal_update" /\ T.pc = "insert"
    /\ \/ /\ TableAccepts(signal_updates, UpdateRow(id, T.msg, T.parent.id, "PROCESSING", 0))
          /\ signal_updates' =
                DbInsert(signal_updates, UpdateRow(id, T.msg, T.parent.id, "PROCESSING", 0))
          /\ SetTask(t, [T EXCEPT !.pc = "prepare", !.rec_id = id])
       \/ /\ SetTask(t, [T EXCEPT !.pc = "on_error"])      \* the INSERT raises
          /\ UNCHANGED signal_updates
    /\ UNCHANGED <<signals, published, delivered, flowVars>>

\* Lines 107-163: download, translation and image edit.
UpdPrepare(t) ==
    LET T == tasks[t] IN
    /\ T.handler = "handle_signal_update" /\ T.pc = "prepare"
    /\ \/ SetTask(t, [T EXCEPT !.pc = "publish"])
       \/ SetTask(t, [T EXCEPT !.pc = "on_error"])         \* a step raises
    /\ UNCHANGED <<signals, signal_updates, published, delivered, flowVars>>

\* UpdPublish replying to the source-group id of the parent.
UpdPublish_SourceId(t) ==
    LET T == tasks[t] IN
    /\ T.handler = "handle_signal_update" /\ T.pc = "publish"
    /\ \/ /\ published' = Append(published,
                [id |-> TargetMsgId(Len(published) + 1),
                 reply_to |-> T.msg.reply_to_msg_id,
                 source_message_id |-> T.msg.id, task |-> t])
          /\ SetTask(t, [T EXCEPT !.pc = "record"])
       \/ /\ SetTask(t, [T EXCEPT !.pc = "on_error", !.publish_failed = TRUE])
          /\ UNCHANGED published
    /\ UNCHANGED <<signals, signal_updates, delivered, flowVars>>

\* Lines 166-184: send_message with reply_to = parent_signal['target_message_id'].
UpdPublish(t) ==
    LET T == tasks[t] IN
    /\ T.handler = "handle_signal_update" /\ T.pc = "publish"
    /\ \/ /\ published' = Append(published,
                [id |-> TargetMsgId(Len(published) + 1),
                 reply_to |-> T.parent.target_message_id,
                 source_message_id |-> T.msg.id, task |-> t])
          /\ SetTask(t, [T EXCEPT !.pc = "record"])
       \/ /\ SetTask(t, [T EXCEPT !.pc = "on_error", !.publish_failed = TRUE])      \* error or timeout
          /\ UNCHANGED published
    /\ UNCHANGED <<signals, signal_updates, delivered, flowVars>>

\* Lines 187-196: the update row becomes POSTED with the target message id.
UpdRecord(t) ==
    LET T == tasks[t] IN
    /\ T.handler = "handle_signal_update" /\ T.pc = "record"
    /\ \/ /\ signal_updates' = DbUpdate(signal_updates, T.rec_id, "POSTED", PostedBy(t))
          /\ SetTask(t, [T EXCEPT !.pc = "done"])
       \/ /\ SetTask(t, [T EXCEPT !.pc = "on_error"])      \* the UPDATE raises
          /\ UNCHANGED signal_updates
    /\ UNCHANGED <<signals, published, delivered, flowVars>>

\* Lines 198-208: except Exception: the row, if any, gets ERROR_POSTING_FAILED.
UpdOnError(t) ==
    LET T == tasks[t] IN
    /\ T.handler = "handle_signal_update" /\ T.pc = "on_error"
    /\ \/ /\ IF T.rec_id # 0
               THEN signal_updates' =
                      [signal_updates EXCEPT ![T.rec_id].status = "ERROR_POSTING_FAILED"]
               ELSE UNCHANGED signal_updates
          /\ SetTask(t, [T EXCEPT !.pc = "done"])
       \/ /\ T.rec_id # 0                                  \* the UPDATE raises
          /\ UNCHANGED signal_updates
          /\ SetTask(t, [T EXCEPT !.pc = "crashed"])
    /\ UNCHANGED <<signals, published, delivered, flowVars>>

\* The tables at start: empty, or as one earlier run of handle_new_signal on
\* message 1 has left them (posted, or failed to post).
Msg1 == CHOOSE m \in Messages : m.id = 1

InitCtl ==
    /\ tasks = <<>>
    /\ allowed_users_list \in {{}, {2}}     \* not configured, or only user 2
    /\ delivered = 0
    /\ signal_updates = <<>>
    /\ now = 0
    /\ \/ /\ signals = <<>>
          /\ published = <<>>
          /\ active_flows = [k \in {} |-> FlowInfo(0, 0)]
          /\ operation_counter = 0
          /\ ft_grant = [k \in SignalIds |-> None]
       \/ /\ \/ /\ signals = <<SignalRow(1, Msg1, "POSTED", TargetMsgId(1))>>
                /\ published = <<[id |-> TargetMsgId(1), reply_to |-> 0,
                                  source_message_id |-> 1, task |-> 0]>>
             \/ /\ signals = <<SignalRow(1, Msg1, "ERROR_POSTING_FAILED", 0)>>
                /\ published = <<>>
          /\ active_flows = [k \in {1} |-> FlowInfo(Msg1.sender_id, 0)]
          /\ operation_counter = 1
          /\ ft_grant = [k \in SignalIds |->
                           IF k = 1 THEN [kind |-> "grant", user_id |-> Msg1.sender_id,
                                          timestamp |-> 0, forced |-> FALSE]
                           ELSE None]

CtlFrame == UNCHANGED <<chainVars, transVars, semVars, ocrVars, matchVars, extractVars,
                        mediaVars, threadVars, singletonVars,
                        allowed_users_list>>

NextCtl ==
    \/ \E m \in Messages : Dispatch(m) /\ CtlFrame
    \/ \E t \in TaskIds : SigFind(t) /\ CtlFrame
    \/ \E t \in TaskIds : SigInsert(t) /\ CtlFrame
    \/ \E t \in TaskIds : SigProcessing(t) /\ CtlFrame
    \/ \E t \in TaskIds : SigPrepare(t) /\ CtlFrame
    \/ \E t \in TaskIds : SigPublish(t) /\ CtlFrame
    \/ \E t \in TaskIds : SigRecord(t) /\ CtlFrame
    \/ \E t \in TaskIds : SigOnError(t) /\ CtlFrame
    \/ \E t \in TaskIds : UpdFind(t) /\ CtlFrame
    \/ \E t \in TaskIds : UpdFindParent(t) /\ CtlFrame
    \/ \E t \in TaskIds : UpdInsert(t) /\ CtlFrame
    \/ \E t \in TaskIds : UpdPrepare(t) /\ CtlFrame
    \/ \E t \in TaskIds : UpdPublish(t) /\ CtlFrame
    \/ \E t \in TaskIds : UpdRecord(t) /\ CtlFrame
    \/ \E t \in TaskIds : UpdOnError(t) /\ CtlFrame

\* ---------------- a signal of an unidentified sender ----------------

\* Messages around a signal whose sender_id is None (stored as
\* source_user_id 0, signal_handler.py line 75).
AnonMessages ==
    { Msg(6, 0, TRUE,  FALSE, 0),    \* a signal without sender_id
      Msg(7, 1, FALSE, TRUE,  6),    \* user 1 replies to it
      Msg(8, 2, FALSE, TRUE,  6),    \* user 2 replies to it
      Msg(9, 1, TRUE,  TRUE,  6),    \* a signal of user 1 that is also a reply
      Msg(10, 2, FALSE, FALSE, 0) }  \* neither a signal nor a reply

Msg6 == CHOOSE m \in AnonMessages : m.id = 6

\* The tables at start: empty, or as one earlier run of handle_new_signal on
\* message 6 has left them; that run started no flow.
InitAnon ==
    /\ tasks = <<>>
    /\ allowed_users_list \in {{}, {2}}
    /\ delivered = 0
    /\ signal_updates = <<>>
    /\ now = 0
    /\ active_flows = [k \in {} |-> FlowInfo(0, 0)]
    /\ operation_counter = 0
    /\ ft_grant = [k \in SignalIds |-> None]
    /\ \/ /\ signals = <<>>
          /\ published = <<>>
       \/ /\ signals = <<SignalRow(1, Msg6, "POSTED", TargetMsgId(1))>>
          /\ published = <<[id |-> TargetMsgId(1), reply_to |-> 0,
                            source_message_id |-> 6, task |-> 0]>>

NextAnon ==
    \/ \E m \in AnonMessages : Dispatch(m) /\ CtlFrame
    \/ \E t \in TaskIds : SigFind(t) /\ CtlFrame
    \/ \E t \in TaskIds : SigInsert(t) /\ CtlFrame
    \/ \E t \in TaskIds : SigProcessing(t) /\ CtlFrame
    \/ \E t \in TaskIds : SigPrepare(t) /\ CtlFrame
    \/ \E t \in TaskIds : SigPublish(t) /\ CtlFrame
    \/ \E t \in TaskIds : SigRecord(t) /\ CtlFrame
    \/ \E t \in TaskIds : SigOnError(t) /\ CtlFrame
    \/ \E t \in TaskIds : UpdFind(t) /\ CtlFrame
    \/ \E t \in TaskIds : UpdFindParent(t) /\ CtlFrame
    \/ \E t \in TaskIds : UpdInsert(t) /\ CtlFrame
    \/ \E t \in TaskIds : UpdPrepare(t) /\ CtlFrame
    \/ \E t \in TaskIds : UpdPublish(t) /\ CtlFrame
    \/ \E t \in TaskIds : UpdRecord(t) /\ CtlFrame
    \/ \E t \in TaskIds : UpdOnError(t) /\ CtlFrame

(***************************************************************************)
(* The translation semaphore                                               *)
(***************************************************************************)

\* translators/fallback.py:16
MAX_CONCURRENT_TRANSLATIONS == 5

\* Number of items whose translations run as concurrent tasks.
NItems == 6

Items == 1..NItems

\* _get_semaphore(): the value of the semaphore, created on first use.
SemaphoreValue ==
    IF translation_semaphore = None THEN MAX_CONCURRENT_TRANSLATIONS
                                    ELSE translation_semaphore.value

Semaphore(n) == [kind |-> "Semaphore", value |-> n]

InitSem ==
    /\ translation_semaphore = None
    /\ co_pc = [c \in Items |-> "start"]
    /\ late_calls = 0

\* Lines 55-70: blank text or a cache hit returns before the semaphore.
CoReturnsEarly(c) ==
    /\ co_pc[c] = "start"
    /\ co_pc' = [co_pc EXCEPT ![c] = "done"]
    /\ UNCHANGED <<translation_semaphore, late_calls>>

\* Lines 73-84: _get_semaphore(), async with semaphore (taken when its value
\* is positive), and the Gemini call started in a worker thread.
CoAcquire(c) ==
    /\ co_pc[c] = "start"
    /\ SemaphoreValue > 0
    /\ translation_semaphore' = Semaphore(SemaphoreValue - 1)
    /\ co_pc' = [co_pc EXCEPT ![c] = "gemini"]
    /\ UNCHANGED late_calls

\* Lines 81-101: wait_for on the Gemini call comes back.  With a translation
\* the coroutine leaves the block (lines 110-118) and the semaphore is
\* released; otherwise the Google Translate call is started.  After a timeout
\* the worker thread of the Gemini call goes on running.
CoGemini(c, how) ==
    /\ co_pc[c] = "gemini"
    /\ \/ /\ how = "translated"
          /\ co_pc' = [co_pc EXCEPT ![c] = "done"]
          /\ translation_semaphore' = Semaphore(SemaphoreValue + 1)
          /\ UNCHANGED late_calls
       \/ /\ how \in {"none", "error"}
          /\ co_pc' = [co_pc EXCEPT ![c] = "google"]
          /\ UNCHANGED <<translation_semaphore, late_calls>>
       \/ /\ how = "timeout"
          /\ co_pc' = [co_pc EXCEPT ![c] = "google"]
          /\ late_calls' = late_calls + 1
          /\ UNCHANGED translation_semaphore

\* Lines 97-118: wait_for on the Google Translate call comes back; whatever
\* the outcome the coroutine returns and the semaphore is released.  After a
\* timeout the worker thread of the call goes on running.
CoGoogle(c, how) ==
    /\ co_pc[c] = "google"
    /\ co_pc' = [co_pc EXCEPT ![c] = "done"]
    /\ translation_semaphore' = Semaphore(SemaphoreValue + 1)
    /\ late_calls' = IF how = "timeout" THEN late_calls + 1 ELSE late_calls

\* The worker thread of a cut-off call comes to its end.
LateCallEnds ==
    /\ late_calls > 0
    /\ late_calls' = late_calls - 1
    /\ UNCHANGED <<translation_semaphore, co_pc>>

CallEnds == {"translated", "none", "error", "timeout"}

SemFrame == UNCHANGED <<chainVars, flowVars, transVars, ctlVars, ocrVars, matchVars,
                        extractVars, mediaVars, threadVars, singletonVars>>

NextSem ==
    \/ \E c \in Items : CoReturnsEarly(c) /\ SemFrame
    \/ \E c \in Items : CoAcquire(c) /\ SemFrame
    \/ \E c \in Items, how \in CallEnds : CoGemini(c, how) /\ SemFrame
    \/ \E c \in Items, how \in CallEnds : CoGoogle(c, how) /\ SemFrame
    \/ LateCallEnds /\ SemFrame

(***************************************************************************)
(* SeamlessTextReplacer and the PaddleOCR subprocess                       *)
(***************************************************************************)

\* Texts are sequences of letters; "_" is a blank.
Blank == <<"_">>

\* The upper-case letters in use, with their lower case.
LowerCase ==
    ("A" :> "a") @@ ("L" :> "l") @@ ("O" :> "o") @@ ("N" :> "n") @@ ("G" :> "g")

RECURSIVE strip(_)
\* str.strip()
strip(t) ==
    IF t = <<>> THEN t
    ELSE IF Head(t) = "_" THEN strip(Tail(t))
    ELSE IF t[Len(t)] = "_" THEN strip(SubSeq(t, 1, Len(t) - 1))
    ELSE t

\* str.lower()
lower(t) ==
    [i \in 1..Len(t) |-> IF t[i] \in DOMAIN LowerCase THEN LowerCase[t[i]] ELSE t[i]]

\* a in b, for strings
IsSubstring(a, b) ==
    \E i \in 0..(Len(b) - Len(a)) : SubSeq(b, i + 1, i + Len(a)) = a

\* A bitmap: its mode and its pixels (named by how they came about).
Bitmap(mode, pixels) == [kind |-> "Image", mode |-> mode, pixels |-> pixels]

\* Image.convert('RGB'): a new image in mode RGB; an alpha channel is dropped.
convert_RGB(b) ==
    Bitmap("RGB", IF b.mode = "RGB" THEN b.pixels ELSE Append(b.pixels, "as RGB"))

\* One detection of the OCR, or one box: its text and bbox_rect, the
\* rectangle (x1, y1, x2, y2) that _bbox_to_rect makes of its polygon.
Det(text, rect) == [text |-> text, bbox_rect |-> rect]

\* Lines 520-521: (x2 - x1) * (y2 - y1)
Area(rect) == (rect[3] - rect[1]) * (rect[4] - rect[2])

\* What run_ocr may put on the queue as `texts` (with their rectangles).
OcrOutputs ==
    { <<>>,
      <<Det(Blank, <<0, 0, 2, 2>>)>>,
      <<Det(<<"a">>, <<0, 0, 2, 1>>)>>,
      <<Det(<<"b">>, <<0, 0, 1, 1>>), Det(<<"A", "b", "_">>, <<0, 2, 3, 3>>)>> }

OcrData(dets) == [kind |-> "ocr_data", dets |-> dets]

\* The translations dicts handed to process_image_sync, in insertion order.
TranslationDicts ==
    { <<>>,
      << <<<<"a">>, "x">> >>,
      << <<<<"b", "b">>, "y">> >>,
      << <<<<"a", "b">>, "x">>, <<<<"b">>, "x">> >> }

\* extract_bounding_boxes, lines 171-198: no boxes for None, and only the
\* detections whose text is not blank, stripped.
extract_bounding_boxes(ocr_data) ==
    IF ocr_data = None THEN <<>>
    ELSE LET dets == ocr_data.dets
             F[i \in 0..Len(dets)] ==
                 IF i = 0 THEN <<>>
                 ELSE IF strip(dets[i].text) # <<>>
                        THEN Append(F[i - 1], Det(strip(dets[i].text), dets[i].bbox_rect))
                        ELSE F[i - 1]
         IN F[Len(dets)]

\* Lines 538-551, times 6 to stay in the integers: the score of a detected
\* text against an original text.
MatchScore(detected_text, orig) ==
    LET d == lower(detected_text)
        o == lower(orig)
    IN IF detected_text = orig \/ d = o THEN 600
       ELSE IF IsSubstring(o, d) THEN 480 + (Len(orig) * 60) \div Len(detected_text)
       ELSE IF IsSubstring(d, o) THEN 360 + (Len(detected_text) * 60) \div Len(orig)
       ELSE 0

\* sorted(detected_boxes, key=area, reverse=True): a stable sort.  The boxes
\* are named by their positions in detected_boxes.
SortedBoxes(boxes) ==
    LET area(i) == Area(boxes[i].bbox_rect)
        before(i, j) == \/ area(i) > area(j)
                        \/ area(i) = area(j) /\ i < j
        rank(i) == 1 + Cardinality({j \in 1..Len(boxes) : j # i /\ before(j, i)})
    IN [k \in 1..Len(boxes) |-> CHOOSE i \in 1..Len(boxes) : rank(i) = k]

\* BestMatch taking the first entry that scores at all.
BestMatch_FirstScoring(box, translations, used) ==
    LET F[i \in 0..Len(translations)] ==
            IF i = 0 THEN [match |-> None, score |-> 0]
            ELSE LET orig == translations[i][1]
                     trans == translations[i][2]
                     sc == MatchScore(strip(box.text), orig)
                 IN IF trans \notin used /\ sc > 0 /\ F[i - 1].score = 0
                      THEN [match |-> Str(trans), score |-> sc]
                      ELSE F[i - 1]
    IN F[Len(translations)]

\* Lines 528-555: the translation chosen for one box: the first entry with
\* the highest score among those whose translation is not used yet.
BestMatch(box, translations, used) ==
    LET F[i \in 0..Len(translations)] ==
            IF i = 0 THEN [match |-> None, score |-> 0]
            ELSE LET orig == translations[i][1]
                     trans == translations[i][2]
                     sc == MatchScore(strip(box.text), orig)
                 IN IF trans \notin used /\ sc > F[i - 1].score
                      THEN [match |-> Str(trans), score |-> sc]
                      ELSE F[i - 1]
    IN F[Len(translations)]

\* match_translations keeping no set of used translations.
match_translations_Reusing(detected_boxes, translations) ==
    LET sorted_boxes == SortedBoxes(detected_boxes)
        F[i \in 0..Len(sorted_boxes)] ==
            IF i = 0 THEN <<>>
            ELSE LET best == BestMatch(detected_boxes[sorted_boxes[i]], translations, {})
                 IN IF Truthy(best.match) /\ best.score >= 240
                      THEN Append(F[i - 1], <<sorted_boxes[i], best.match.v>>)
                      ELSE F[i - 1]
    IN F[Len(sorted_boxes)]

\* match_translations, lines 515-566: the list of (box, translated text),
\* the box given as its position in detected_boxes.
match_translations(detected_boxes, translations) ==
    LET sorted_boxes == SortedBoxes(detected_boxes)
        F[i \in 0..Len(sorted_boxes)] ==
            IF i = 0 THEN [matches |-> <<>>, used |-> {}]
            ELSE LET best == BestMatch(detected_boxes[sorted_boxes[i]], translations,
                                       F[i - 1].used)
                 IN IF Truthy(best.match) /\ best.score >= 240
                      THEN [matches |-> Append(F[i - 1].matches,
                                               <<sorted_boxes[i], best.match.v>>),
                            used |-> F[i - 1].used \cup {best.match.v}]
                      ELSE F[i - 1]
    IN F[Len(sorted_boxes)].matches

\* Line 633: the overlap test of the replacement loop; rectangles that only
\* touch count as overlapping.
Overlaps(r, p) == ~(r[3] < p[1] \/ r[1] > p[3] \/ r[4] < p[2] \/ r[2] > p[4])

\* replaced_matches without the test against processed_regions.
replaced_matches_NoOverlapTest(detected_boxes, matched) == matched

\* Lines 620-661: the matches the loop replaces, in order: a match whose
\* rectangle overlaps one replaced before it is skipped.
replaced_matches(detected_boxes, matched) ==
    LET rect(k) == detected_boxes[matched[k][1]].bbox_rect
        F[k \in 0..Len(matched)] ==
            IF k = 0 THEN <<>>
            ELSE IF \E j \in 1..Len(F[k - 1]) :
                        Overlaps(rect(k), detected_boxes[F[k - 1][j][1]].bbox_rect)
                   THEN F[k - 1]
                   ELSE Append(F[k - 1], matched[k])
    IN F[Len(matched)]

\* The image file at image_path: whether validate_image_file accepts it, and
\* the bitmap it holds.
ImageFiles ==
    { [valid |-> v, bitmap |-> Bitmap(m, <<"original">>)] :
          v \in BOOLEAN, m \in {"RGB", "RGBA"} }

\* The arguments of one call of process_image_sync.
PiArgs == [image : ImageFiles, translations : TranslationDicts, output_path : BOOLEAN]

\* PADDLEOCR_ENABLED comes from the environment (line 38); _paddleocr_disabled
\* is False when the module is loaded (line 35).
InitOcr ==
    /\ PADDLEOCR_ENABLED \in BOOLEAN
    /\ paddleocr_disabled = FALSE
    /\ child = "none"
    /\ result_queue = <<>>
    /\ signals_sent = {}
    /\ ocr_pc = "idle"
    /\ ocr_ret = None
    /\ pi_args \in PiArgs
    /\ pi_pc = "entry"
    /\ pi_ret = None
    /\ pi_saved = None
    /\ pi_error = None

\* An exception, named by the step that raised it.
Exception(at) == [kind |-> "Exception", at |-> at]

\* PiEntry with Image.open outside the try block.
PiEntry_Propagates(open_raises) ==
    /\ pi_pc = "entry"
    /\ IF ~pi_args.image.valid THEN pi_pc' = "done"
       ELSE IF open_raises THEN pi_pc' = "raised"
       ELSE pi_pc' = "detect"
    /\ UNCHANGED <<PADDLEOCR_ENABLED, paddleocr_disabled, child, result_queue,
                   signals_sent, ocr_pc, ocr_ret, pi_args, pi_ret, pi_saved, pi_error>>

\* process_image_sync, lines 585-599: validate the path, open and convert the
\* image, then call extract_bounding_boxes.  A failing Image.open is caught
\* at lines 685-687.
PiEntry(open_raises) ==
    /\ pi_pc = "entry"
    /\ IF ~pi_args.image.valid \/ open_raises
         THEN pi_pc' = "done"
         ELSE pi_pc' = "detect"
    /\ pi_error' = IF pi_args.image.valid /\ open_raises THEN Exception("load")
                                                         ELSE None
    /\ UNCHANGED <<PADDLEOCR_ENABLED, paddleocr_disabled, child, result_queue,
                   signals_sent, ocr_pc, ocr_ret, pi_args, pi_ret, pi_saved>>

\* OcrStart without the test of _paddleocr_disabled.
OcrStart_IgnoresFlag(start_raises) ==
    /\ pi_pc = "detect" /\ ocr_pc = "idle"
    /\ IF ~PADDLEOCR_ENABLED \/ start_raises
         THEN /\ ocr_pc' = "returned"
              /\ UNCHANGED child
         ELSE /\ ocr_pc' = "join"
              /\ child' = "running"
    /\ UNCHANGED <<PADDLEOCR_ENABLED, paddleocr_disabled, result_queue, signals_sent,
                   ocr_ret, pi_args, pi_pc, pi_ret, pi_saved, pi_error>>

\* run_paddleocr_with_timeout, lines 78-95: return None when PaddleOCR is
\* off; otherwise start the subprocess and join it.  process.start() may
\* raise, which lines 121-126 turn into None.
OcrStart(start_raises) ==
    /\ pi_pc = "detect" /\ ocr_pc = "idle"
    /\ IF ~PADDLEOCR_ENABLED \/ paddleocr_disabled \/ start_raises
         THEN /\ ocr_pc' = "returned"
              /\ UNCHANGED child
         ELSE /\ ocr_pc' = "join"
              /\ child' = "running"
    /\ UNCHANGED <<PADDLEOCR_ENABLED, paddleocr_disabled, result_queue, signals_sent,
                   ocr_ret, pi_args, pi_pc, pi_ret, pi_saved, pi_error>>

\* paddleocr_worker.run_ocr comes to its end: a result or an error is on the
\* queue; or the subprocess dies without putting anything there.
ChildExits(put) ==
    /\ child = "running"
    /\ child' = "exited"
    /\ result_queue' = put
    /\ UNCHANGED <<PADDLEOCR_ENABLED, paddleocr_disabled, signals_sent, ocr_pc, ocr_ret,
                   pi_args, pi_pc, pi_ret, pi_saved, pi_error>>

ChildPuts ==
    {<<>>, <<[status |-> "error", data |-> Str("error")]>>}
        \cup {<<[status |-> "success", data |-> OcrData(d)]>> : d \in OcrOutputs}

\* The subprocess dies of the SIGTERM it was sent (it may also live on).
ChildTerminated ==
    /\ child = "running" /\ "SIGTERM" \in signals_sent
    /\ child' = "terminated"
    /\ UNCHANGED <<PADDLEOCR_ENABLED, paddleocr_disabled, result_queue, signals_sent,
                   ocr_pc, ocr_ret, pi_args, pi_pc, pi_ret, pi_saved, pi_error>>

\* OcrJoined returning whatever is on the queue, whatever its status.
OcrJoined_AnyStatus(join_raises, get_raises) ==
    /\ ocr_pc = "join"
    /\ IF join_raises
         THEN /\ signals_sent' = IF child = "running" THEN signals_sent \cup {"SIGTERM"}
                                                     ELSE signals_sent
              /\ ocr_pc' = "returned"
              /\ ocr_ret' = None
         ELSE IF child = "running"
         THEN /\ signals_sent' = signals_sent \cup {"SIGTERM"}
              /\ ocr_pc' = "grace"
              /\ UNCHANGED ocr_ret
         ELSE /\ ocr_pc' = "returned"
              /\ ocr_ret' = IF result_queue # <<>> /\ ~get_raises
                              THEN result_queue[1].data
                              ELSE None
              /\ UNCHANGED signals_sent
    /\ UNCHANGED <<PADDLEOCR_ENABLED, paddleocr_disabled, child, result_queue,
                   pi_args, pi_pc, pi_ret, pi_saved, pi_error>>

\* Lines 95-126: process.join(timeout) is over.  If it raised, lines 121-126
\* send SIGTERM to a subprocess still alive, join it for two seconds and
\* return None.  Otherwise a subprocess still alive gets SIGTERM and is
\* joined for the grace period, and with the subprocess gone the queue is
\* read (get_nowait may raise, lines 121-126).
OcrJoined(join_raises, get_raises) ==
    /\ ocr_pc = "join"
    /\ IF join_raises
         THEN /\ signals_sent' = IF child = "running" THEN signals_sent \cup {"SIGTERM"}
                                                     ELSE signals_sent
              /\ ocr_pc' = "returned"
              /\ ocr_ret' = None
         ELSE IF child = "running"
         THEN /\ signals_sent' = signals_sent \cup {"SIGTERM"}
              /\ ocr_pc' = "grace"
              /\ UNCHANGED ocr_ret
         ELSE /\ ocr_pc' = "returned"
              /\ ocr_ret' = IF result_queue # <<>> /\ ~get_raises
                                /\ result_queue[1].status = "success"
                              THEN result_queue[1].data
                              ELSE None
              /\ UNCHANGED signals_sent
    /\ UNCHANGED <<PADDLEOCR_ENABLED, paddleocr_disabled, child, result_queue,
                   pi_args, pi_pc, pi_ret, pi_saved, pi_error>>

\* OcrGraceOver without the escalation to process.kill().
OcrGraceOver_NoKill ==
    /\ ocr_pc = "grace"
    /\ UNCHANGED <<child, signals_sent>>
    /\ paddleocr_disabled' = TRUE
    /\ ocr_pc' = "returned"
    /\ UNCHANGED <<PADDLEOCR_ENABLED, result_queue, ocr_ret, pi_args, pi_pc, pi_ret, pi_saved, pi_error>>

\* Lines 100-105: process.join(timeout=5) is over.  A subprocess still alive
\* gets SIGKILL, which it can neither catch nor ignore, and is joined again;
\* PaddleOCR is switched off for later calls and None is returned.
OcrGraceOver ==
    /\ ocr_pc = "grace"
    /\ IF child = "running"
         THEN /\ signals_sent' = signals_sent \cup {"SIGKILL"}
              /\ child' = "killed"
         ELSE UNCHANGED <<child, signals_sent>>
    /\ paddleocr_disabled' = TRUE
    /\ ocr_pc' = "returned"
    /\ UNCHANGED <<PADDLEOCR_ENABLED, result_queue, ocr_ret, pi_args, pi_pc, pi_ret, pi_saved, pi_error>>

\* PiAfterDetect going on to the replacement with no box and no match.
PiAfterDetect_AlwaysReplaces(step_raises) ==
    /\ pi_pc = "detect" /\ ocr_pc = "returned"
    /\ LET result == IF step_raises THEN None ELSE Bitmap("RGB", <<"edited">>)
       IN /\ pi_ret' = result
          /\ pi_saved' = IF pi_args.output_path THEN result ELSE pi_saved
    /\ pi_error' = IF step_raises THEN Exception("replace or save") ELSE None
    /\ pi_pc' = "done"
    /\ UNCHANGED <<PADDLEOCR_ENABLED, paddleocr_disabled, child, result_queue,
                   signals_sent, ocr_pc, ocr_ret, pi_args>>

\* process_image_sync, lines 599-687, once extract_bounding_boxes is back.
\* With no box or no match the converted image is saved to output_path (when
\* given) and returned; otherwise every match is replaced on a copy, which is
\* saved and returned.  Any step that raises (a save, a rendering step) makes
\* the result None, lines 685-687.
PiAfterDetect(step_raises) ==
    /\ pi_pc = "detect" /\ ocr_pc = "returned"
    /\ LET image == convert_RGB(pi_args.image.bitmap)
           boxes == extract_bounding_boxes(ocr_ret)
           matched == match_translations(boxes, pi_args.translations)
           result == IF boxes = <<>> \/ matched = <<>>
                       THEN image
                       ELSE Bitmap("RGB", <<"edited">>)
       IN IF step_raises
            THEN /\ (pi_args.output_path \/ (boxes # <<>> /\ matched # <<>>))
                 /\ pi_ret' = None
                 /\ UNCHANGED pi_saved
            ELSE /\ pi_ret' = result
                 /\ pi_saved' = IF pi_args.output_path THEN result ELSE pi_saved
    /\ pi_error' = IF step_raises THEN Exception("replace or save") ELSE None
    /\ pi_pc' = "done"
    /\ UNCHANGED <<PADDLEOCR_ENABLED, paddleocr_disabled, child, result_queue,
                   signals_sent, ocr_pc, ocr_ret, pi_args>>

\* The next call of process_image_sync in the same process, once the last
\* one is over: new locals, a new queue and a new subprocess object (lines
\* 88-91); the module globals stay.
PiCall(args) ==
    /\ pi_pc = "done"
    /\ pi_args' = args
    /\ pi_pc' = "entry"
    /\ pi_ret' = None /\ pi_saved' = None /\ pi_error' = None
    /\ ocr_pc' = "idle" /\ ocr_ret' = None
    /\ child' = "none" /\ result_queue' = <<>> /\ signals_sent' = {}
    /\ UNCHANGED <<PADDLEOCR_ENABLED, paddleocr_disabled>>

OcrFrame == UNCHANGED <<chainVars, flowVars, transVars, ctlVars, semVars, matchVars,
                        extractVars, mediaVars, threadVars, singletonVars>>

NextOcr ==
    \/ \E open_raises \in BOOLEAN : PiEntry(open_raises) /\ OcrFrame
    \/ \E start_raises \in BOOLEAN : OcrStart(start_raises) /\ OcrFrame
    \/ \E put \in ChildPuts : ChildExits(put) /\ OcrFrame
    \/ ChildTerminated /\ OcrFrame
    \/ \E join_raises, get_raises \in BOOLEAN : OcrJoined(join_raises, get_raises) /\ OcrFrame
    \/ OcrGraceOver /\ OcrFrame
    \/ \E step_raises \in BOOLEAN : PiAfterDetect(step_raises) /\ OcrFrame
    \/ \E args \in PiArgs : PiCall(args) /\ OcrFrame

(***************************************************************************)
(* match_translations and the replacement loop                             *)
(***************************************************************************)

\* Largest number of detected boxes.
MaxBoxes == 2

LONG == <<"L", "O", "N", "G">>
LON == <<"L", "O", "N">>

\* Rectangles: the second overlaps the first, the third only touches the
\* first along an edge, the fourth lies apart.
MatchRects == {<<0, 0, 4, 2>>, <<2, 1, 5, 3>>, <<4, 0, 6, 2>>, <<0, 5, 4, 7>>}

MatchBoxes == {Det(t, r) : t \in {LONG, LON, <<"l", "o", "n", "g", "_", "G">>}, r \in MatchRects}

MatchDicts ==
    { << <<LONG, "LONG-ru">> >>,
      << <<LONG, "LONG-ru">>, <<LON, "LONG-ru">> >>,
      << <<LON, "LON-ru">>, <<LONG, "LONG-ru">> >>,
      << <<<<"G">>, "">>, <<<<"N", "G">>, "NG-ru">> >> }

\* Lines 594-595: image is the bitmap opened from the file, the first object.
image == 1

\* The pixels of a bitmap nothing has drawn on.
OriginalPixels == <<>>

\* Line 621, Image.copy(): a new object with the same pixels.
copy(heap, obj) == Append(heap, heap[obj])

\* Lines 207-314, extract_text_color and extract_background_color: the colour
\* is computed from a crop of the bitmap passed in, which is only read.
extract_color(kind, heap, obj, box) ==
    [kind |-> kind, box |-> box, from |-> obj, pixels |-> heap[obj]]

\* Lines 378-432, clear_text_region: the pixels are copied to an array, the
\* region is inpainted or filled there, and a new bitmap is made of the array.
clear_text_region(heap, obj, box, bg_color) ==
    Append(heap, Append(heap[obj], <<"clear", box, bg_color.pixels>>))

\* Lines 434-465, render_replacement_text: draws on the bitmap passed in and
\* returns that same bitmap.
render_replacement_text(heap, obj, box, text_color) ==
    [heap EXCEPT ![obj] = Append(@, <<"render", box, text_color.pixels>>)]

\* The bitmap the loop samples from, were it the working copy.
color_source_WorkingCopy(original, working) == working

\* Lines 646-647: the bitmap passed to the two colour extractors.
color_source(original, working) == original

InitMatch ==
    /\ mt_boxes \in UNION {[1..n -> MatchBoxes] : n \in 0..MaxBoxes}
    /\ mt_translations \in MatchDicts
    /\ mt_pc = "match"
    /\ mt_matched = <<>>
    /\ mt_replaced = <<>>
    /\ mt_k = 0
    /\ mt_heap = <<OriginalPixels>>
    /\ mt_result_image = 0
    /\ mt_samples = <<>>

\* process_image_sync, line 610: matched = self.match_translations(boxes, translations)
MtMatch ==
    /\ mt_pc = "match"
    /\ mt_matched' = match_translations(mt_boxes, mt_translations)
    /\ mt_pc' = "replace"
    /\ UNCHANGED <<mt_boxes, mt_translations, mt_replaced, mt_k, mt_heap,
                   mt_result_image, mt_samples>>

\* process_image_sync, lines 612-622: nothing matched and image itself is
\* returned, or the working copy is made and the loop begins.
MtCopy ==
    /\ mt_pc = "replace"
    /\ IF mt_matched = <<>>
         THEN /\ mt_pc' = "done"
              /\ UNCHANGED <<mt_heap, mt_result_image>>
         ELSE /\ mt_pc' = "loop"
              /\ mt_heap' = copy(mt_heap, image)
              /\ mt_result_image' = Len(mt_heap')
    /\ UNCHANGED <<mt_boxes, mt_translations, mt_matched, mt_replaced, mt_k, mt_samples>>

\* process_image_sync, lines 624-661: one pass of the replacement loop. The
\* match is skipped when its rectangle overlaps a processed region; otherwise
\* the colours are sampled, the region is cleared, the text is drawn and the
\* rectangle joins processed_regions.
MtReplace ==
    /\ mt_pc = "loop"
    /\ LET k == mt_k + 1
           box == mt_matched[k][1]
           replaced == replaced_matches(mt_boxes, SubSeq(mt_matched, 1, k))
           skip == replaced = mt_replaced
           source == color_source(image, mt_result_image)
           text_color == extract_color("text", mt_heap, source, box)
           bg_color == extract_color("bg", mt_heap, source, box)
           cleared == clear_text_region(mt_heap, mt_result_image, box, bg_color)
       IN /\ mt_k' = k
          /\ mt_replaced' = replaced
          /\ mt_pc' = IF k = Len(mt_matched) THEN "done" ELSE "loop"
          /\ IF skip
               THEN UNCHANGED <<mt_heap, mt_result_image, mt_samples>>
               ELSE /\ mt_result_image' = Len(cleared)
                    /\ mt_heap' = render_replacement_text(cleared, Len(cleared), box,
                                                          text_color)
                    /\ mt_samples' = mt_samples \o <<text_color, bg_color>>
    /\ UNCHANGED <<mt_boxes, mt_translations, mt_matched>>

MatchFrame == UNCHANGED <<chainVars, flowVars, transVars, ctlVars, semVars, ocrVars,
                          extractVars, mediaVars, threadVars, singletonVars>>

NextMatch ==
    \/ MtMatch /\ MatchFrame
    \/ MtCopy /\ MatchFrame
    \/ MtReplace /\ MatchFrame

(***************************************************************************)
(* extract_text_from_image and edit_image_text_sync                        *)
(***************************************************************************)

\* Largest number of extractions of a vision result, and of lines of a
\* direct Gemini response.
MaxLines == 2

\* Texts of extractions, as characters ("_" is a blank): empty, a text that
\* is the same in both languages, another text, and a hyphenated one.
ExTexts == {<<>>, <<"B">>, <<"r">>, <<"T", "-", "1">>}

\* What stands left and right of the arrow of a response line, the labels
\* ORIGINAL: and ENGLISH: taken away.
RawTexts == ExTexts \cup {<<"_", "B">>}

\* VisionResult.extractions: (original, translated)
Extractions == UNION {[1..n -> ExTexts \X ExTexts] : n \in 0..MaxLines}

\* A line of the response: with an arrow and two parts, or without one.
ResponseLines ==
    {[arrow |-> FALSE, left |-> <<>>, right |-> <<>>]}
        \cup {[arrow |-> TRUE, left |-> l, right |-> r] : l \in RawTexts, r \in RawTexts}

Responses == UNION {[1..n -> ResponseLines] : n \in 0..MaxLines}

\* str.replace('-', '')
RemoveHyphens(t) == SelectSeq(t, LAMBDA c : c # "-")

\* Lines 110-114: the extractions with both texts non-empty.
VisionTranslations(extractions) ==
    SelectSeq(extractions, LAMBDA e : e[1] # <<>> /\ e[2] # <<>>)

\* Lines 178-191: the pairs parsed from the lines of the response.
ParsedTranslations(lines) ==
    LET original(l) == strip(RemoveHyphens(l.left))
        english(l) == strip(l.right)
        F[i \in 0..Len(lines)] ==
            IF i = 0 THEN <<>>
            ELSE LET l == lines[i] IN
                 IF /\ l.arrow
                    /\ original(l) # <<>> /\ english(l) # <<>>
                    /\ original(l) # english(l)
                   THEN Append(F[i - 1], <<original(l), english(l)>>)
                   ELSE F[i - 1]
    IN F[Len(lines)]

\* Lines 238-241: {t['russian']: t['english'] for t in translations_list};
\* a key that comes again keeps its place and takes the later value.
ToDict(translations_list) ==
    LET F[i \in 0..Len(translations_list)] ==
            IF i = 0 THEN <<>>
            ELSE LET t == translations_list[i]
                     d == F[i - 1]
                 IN IF \E k \in 1..Len(d) : d[k][1] = t[1]
                      THEN [k \in 1..Len(d) |-> IF d[k][1] = t[1] THEN t ELSE d[k]]
                      ELSE Append(d, t)
    IN F[Len(translations_list)]

Chain == [kind |-> "FallbackChain"]

InitExtract ==
    /\ ex_chain \in {None, Chain}
    /\ ex_result = Unbound
    /\ ex_ocr_result = Unbound
    /\ ex_pc = "chain"
    /\ ex_translations = <<>>
    /\ ex_dict = <<>>
    /\ ex_matcher = None

\* Lines 104-131: the vision chain, when there is one.  outcome: the chain
\* raises, returns no result, or returns extractions.  ex_result keeps the
\* result only when the function returns from it (it is not read again
\* otherwise).
ExVisionChain(outcome) ==
    /\ ex_pc = "chain"
    /\ IF ex_chain = None
         THEN /\ outcome.kind = "raises"
              /\ ex_pc' = "gemini"
              /\ UNCHANGED <<ex_result, ex_translations>>
         ELSE IF outcome.kind = "raises"
           THEN /\ ex_pc' = "gemini"
                /\ UNCHANGED <<ex_result, ex_translations>>
         ELSE IF outcome.kind = "none" \/ VisionTranslations(outcome.v) = <<>>
           THEN /\ ex_pc' = "gemini"
                /\ UNCHANGED <<ex_result, ex_translations>>
         ELSE /\ ex_result' = [kind |-> "VisionResult", extractions |-> outcome.v]
              /\ ex_translations' = VisionTranslations(outcome.v)
              /\ ex_pc' = "returned"
    /\ UNCHANGED <<ex_chain, ex_ocr_result, ex_dict, ex_matcher>>

\* Lines 133-199: the direct Gemini request and the parsing of its lines.
ExDirectGemini(response) ==
    /\ ex_pc = "gemini"
    /\ IF response.kind = "raises"
         THEN /\ ex_translations' = <<>>
              /\ UNCHANGED ex_ocr_result
         ELSE /\ ex_ocr_result' = response
              /\ ex_translations' = ParsedTranslations(response.v)
    /\ ex_pc' = "returned"
    /\ UNCHANGED <<ex_chain, ex_result, ex_dict, ex_matcher>>

\* Lines 232-246: no translations: return None; else build translations_dict.
ExToDict ==
    /\ ex_pc = "returned"
    /\ IF ex_translations = <<>>
         THEN /\ ex_pc' = "done"
              /\ UNCHANGED ex_dict
         ELSE /\ ex_dict' = ToDict(ex_translations)
              /\ ex_pc' = "replace"
    /\ UNCHANGED <<ex_chain, ex_result, ex_ocr_result, ex_translations, ex_matcher>>

\* Lines 252-257 with seamless_replacer.py 599-610: process_image_sync calls
\* match_translations(boxes, translations) when it has detected boxes.
ExReplace(boxes_found) ==
    /\ ex_pc = "replace"
    /\ ex_matcher' = IF boxes_found THEN [kind |-> "dict", v |-> ex_dict] ELSE None
    /\ ex_pc' = "done"
    /\ UNCHANGED <<ex_chain, ex_result, ex_ocr_result, ex_translations, ex_dict>>

\* What chain.extract_text does: raise, hand back nothing, or extractions.
ChainOutcomes ==
    {[kind |-> "raises"], [kind |-> "none"]}
        \cup {[kind |-> "extractions", v |-> e] : e \in Extractions}

\* What generate_content does: raise, or a response of some lines.
GeminiOutcomes ==
    {[kind |-> "raises"]} \cup {[kind |-> "lines", v |-> r] : r \in Responses}

ExtractFrame == UNCHANGED <<chainVars, flowVars, transVars, ctlVars, semVars, ocrVars,
                            matchVars, mediaVars, threadVars, singletonVars>>

NextExtract ==
    \/ ex_pc = "chain" /\ (\E o \in ChainOutcomes : ExVisionChain(o)) /\ ExtractFrame
    \/ ex_pc = "gemini" /\ (\E r \in GeminiOutcomes : ExDirectGemini(r)) /\ ExtractFrame
    \/ ExToDict /\ ExtractFrame
    \/ \E b \in BOOLEAN : ExReplace(b) /\ ExtractFrame

(***************************************************************************)
(* The media of one item: download, image editing, publication             *)
(***************************************************************************)

\* A file: its path and what it holds.
File(path, content) == [kind |-> "file", path |-> path, content |-> content]

\* media_info['local_path'] and the output_path of process_image.
LocalFile == File("local_path", "downloaded")
OutputFile(content) == File("local_path_edited", content)

\* What happens inside process_image(media_info['local_path']):
\*   import_error     the import of line 137 raises
\*   invalid_file     edit_image_text_sync: validate_image_file / exists fail
\*   no_translations  extract_text_from_image hands back nothing
\*   editor_raises    an exception in edit_image_text_sync or edit_image_text
\*   replacer_none    process_image_sync returns None
\*   nothing_replaced process_image_sync finds no box or no match (PaddleOCR
\*                    off, failed or cut off included) and saves the image
\*   edited           process_image_sync replaces text and saves the image
EditOutcomes == {"import_error", "invalid_file", "no_translations", "editor_raises",
                 "replacer_none", "nothing_replaced", "edited"}

\* gemini_ocr.process_image, lines 123-155: the value gather gets for it.
process_image(outcome) ==
    CASE outcome = "import_error" -> Exception("process_image")
      [] outcome = "nothing_replaced" -> OutputFile("unedited RGB copy")
      [] outcome = "edited" -> OutputFile("edited")
      [] OTHER -> None

IsException(x) == x.kind = "Exception"

InitMedia ==
    /\ md_handler \in {"handle_new_signal", "handle_signal_update"}
    /\ md_pc = "download"
    /\ md_media_info = None
    /\ md_edit = Unbound
    /\ md_results = Unbound
    /\ md_status = "PROCESSING"
    /\ md_published = Unbound
    /\ md_files = {}

\* signal_handler.py 105-116 / update_handler.py 106-118: the download.
MdDownload(media, raises) ==
    /\ md_pc = "download"
    /\ IF raises
         THEN md_pc' = "on_error" /\ UNCHANGED <<md_media_info, md_files>>
         ELSE /\ md_pc' = "gather"
              /\ md_media_info' = media
              /\ md_files' = IF media = None THEN md_files ELSE md_files \cup {media.path}
    /\ UNCHANGED <<md_handler, md_edit, md_results, md_status, md_published>>

\* The paths on disk once process_image has ended with this value.
Saved(files, value) == IF value.kind = "file" THEN files \cup {value.path} ELSE files

\* signal_handler.py 118-158 / update_handler.py 120-158: gather with
\* return_exceptions=True, then the status write of a failed translation
\* (new signals only), which may itself raise.
MdGather(outcome, translation, write_raises) ==
    /\ md_pc = "gather"
    /\ IF md_media_info = None
         THEN outcome = "none" /\ md_edit' = Unbound
         ELSE outcome \in EditOutcomes /\ md_edit' = Str(outcome)
    /\ md_results' = [translation |-> translation,
                      image |-> IF md_media_info = None
                                  THEN None                 \* asyncio.sleep(0)
                                  ELSE process_image(outcome)]
    /\ md_files' = Saved(md_files, md_results'.image)
    /\ IF IsException(translation) /\ md_handler = "handle_new_signal"
         THEN IF write_raises
                THEN md_pc' = "on_error" /\ UNCHANGED md_status
                ELSE md_pc' = "publish" /\ md_status' = "ERROR_TRANSLATION_FAILED"
         ELSE /\ ~write_raises
              /\ md_pc' = "publish" /\ UNCHANGED md_status
    /\ UNCHANGED <<md_handler, md_media_info, md_published>>

\* image_to_send without the fallback to the downloaded file.
image_to_send_EditedOnly ==
    IF IsException(md_results.image) THEN None ELSE md_results.image

\* Lines 146 and 168-178 (both handlers): edited_image_path, image_to_send.
image_to_send ==
    LET edited_image_path ==
            IF IsException(md_results.image) THEN None ELSE md_results.image
    IN IF edited_image_path # None THEN edited_image_path ELSE md_media_info

\* signal_handler.py 170-183 / update_handler.py 165-184: send_message under
\* wait_for.
MdPublish(ok) ==
    /\ md_pc = "publish"
    /\ IF ok
         THEN md_pc' = "record" /\ md_published' = image_to_send
         ELSE md_pc' = "on_error" /\ UNCHANGED md_published
    /\ UNCHANGED <<md_handler, md_media_info, md_edit, md_results, md_status, md_files>>

\* signal_handler.py 185-196 / update_handler.py 186-196: status POSTED.
MdRecord(raises) ==
    /\ md_pc = "record"
    /\ IF raises
         THEN md_pc' = "on_error" /\ UNCHANGED md_status
         ELSE md_pc' = "done" /\ md_status' = "POSTED"
    /\ UNCHANGED <<md_handler, md_media_info, md_edit, md_results, md_published, md_files>>

\* signal_handler.py 198-211 / update_handler.py 198-208: except Exception.
\* When the status write raises, the exception leaves the handler after the
\* finally block.
MdOnError(raises) ==
    /\ md_pc = "on_error"
    /\ md_pc' = "done"
    /\ md_status' = IF raises THEN md_status ELSE "ERROR_POSTING_FAILED"
    /\ UNCHANGED <<md_handler, md_media_info, md_edit, md_results, md_published, md_files>>

\* main.py 199-203: shutdown cancels the tracked handler tasks. The handler
\* gets CancelledError at the await it is waiting in; except Exception does
\* not catch it and the finally block runs. Under gather the worker thread
\* of process_image (image_editor.py 298) is not stopped by the cancellation:
\* it may have saved its output file already, or not.
MdCancel(outcome) ==
    /\ md_pc \in {"gather", "publish", "record", "on_error"}
    /\ md_pc' = "cancelled"
    /\ IF md_pc = "gather" /\ md_media_info # None
         THEN /\ outcome \in EditOutcomes
              /\ md_files' \in {md_files, Saved(md_files, process_image(outcome))}
         ELSE /\ outcome = "none"
              /\ UNCHANGED md_files
    /\ UNCHANGED <<md_handler, md_media_info, md_edit, md_results, md_status,
                   md_published>>

\* media/downloader.py 92-104, cleanup_media: the file is removed if it exists.
cleanup_media(files, file) == files \ {file.path}

\* signal_handler.py 213-225 / update_handler.py 210-222: the finally block.
\* edited_image_path is None until line 146 has bound it.
MdFinally ==
    /\ md_pc \in {"done", "cancelled"}
    /\ md_pc' = "returned"
    /\ LET edited_image_path ==
               IF md_results = Unbound \/ IsException(md_results.image)
                 THEN None ELSE md_results.image
           downloaded_gone ==
               IF md_media_info # None THEN cleanup_media(md_files, md_media_info)
                                       ELSE md_files
       IN md_files' = IF edited_image_path # None
                        THEN cleanup_media(downloaded_gone, edited_image_path)
                        ELSE downloaded_gone
    /\ UNCHANGED <<md_handler, md_media_info, md_edit, md_results, md_status,
                   md_published>>

MediaFrame == UNCHANGED <<chainVars, flowVars, transVars, ctlVars, semVars, ocrVars,
                          matchVars, extractVars, threadVars, singletonVars>>

NextMedia ==
    \/ \E media \in {None, LocalFile}, raises \in BOOLEAN :
           MdDownload(media, raises) /\ MediaFrame
    \/ \E outcome \in EditOutcomes \cup {"none"},
          translation \in {Str("translated"), Exception("translation")},
          write_raises \in BOOLEAN :
           MdGather(outcome, translation, write_raises) /\ MediaFrame
    \/ \E ok \in BOOLEAN : MdPublish(ok) /\ MediaFrame
    \/ \E raises \in BOOLEAN : MdRecord(raises) /\ MediaFrame
    \/ \E raises \in BOOLEAN : MdOnError(raises) /\ MediaFrame
    \/ \E outcome \in EditOutcomes \cup {"none"} : MdCancel(outcome) /\ MediaFrame
    \/ MdFinally /\ MediaFrame

(***************************************************************************)
(* FlowTracker called from two threads                                     *)
(***************************************************************************)

\* The two threads, and the signal ids their calls name.
Threads == {"A", "B"}
ThSignals == {1, 2}

Call(op, s, u) == [op |-> op, s |-> s, u |-> u]

\* The calls a thread may make; start_flow is made for user 2, the flows in
\* the map at the start belong to user 1.
ThCalls ==
    {Call("start_flow", s, 2) : s \in ThSignals}
        \cup {Call("get_flow_owner", s, 0) : s \in ThSignals}
        \cup {Call("is_allowed", s, 1) : s \in ThSignals}
        \cup {Call("end_flow", s, 0) : s \in ThSignals}
        \cup {Call("cleanup_expired", 0, 0)}

\* The first statement of each function.
Entry(op) ==
    CASE op = "start_flow" -> "store"
      [] op \in {"get_flow_owner", "is_allowed"} -> "get"
      [] op = "end_flow" -> "test"
      [] OTHER -> "sweep"

\* A thread at the start of its call.  tmp is the value of _operation_counter
\* it has loaded; size0, visited and expired belong to the loop over
\* _active_flows.items() in cleanup_expired.
Thread(call) ==
    [call |-> call, pc |-> Entry(call.op), tmp |-> 0, size0 |-> 0,
     visited |-> {}, expired |-> {}, exc |-> None]

\* An exception, named by its class.
Raised(class) == [kind |-> "Exception", class |-> class]

\* Maps with flows of user 1, started at time 0 or just now.
InitThreads ==
    /\ now = MaxTime
    /\ active_flows \in UNION {[D -> {FlowInfo(1, 0), FlowInfo(1, MaxTime)}] :
                                  D \in SUBSET ThSignals}
    /\ operation_counter \in {0, CLEANUP_INTERVAL - 1}
    /\ ft_grant = [k \in SignalIds |-> None]
    /\ threads \in [Threads -> {Thread(c) : c \in ThCalls}]
    /\ th_start = [flows |-> active_flows, counter |-> operation_counter]

\* start_flow, line 54: _active_flows[signal_id] = FlowInfo(...)
ThStore(t) ==
    /\ threads[t].pc = "store"
    /\ LET s == threads[t].call.s
       IN active_flows' = [k \in (DOMAIN active_flows) \cup {s} |->
                              IF k = s THEN FlowInfo(threads[t].call.u, now)
                                       ELSE active_flows[k]]
    /\ threads' = [threads EXCEPT ![t].pc = "load_counter"]
    /\ UNCHANGED <<now, operation_counter, ft_grant, th_start>>

\* start_flow, line 55, first half: the value of _operation_counter is loaded.
ThLoadCounter(t) ==
    /\ threads[t].pc = "load_counter"
    /\ threads' = [threads EXCEPT ![t].tmp = operation_counter,
                                  ![t].pc = "store_counter"]
    /\ UNCHANGED <<now, active_flows, operation_counter, ft_grant, th_start>>

\* start_flow, line 55, second half: the loaded value plus one is stored.
ThStoreCounter(t) ==
    /\ threads[t].pc = "store_counter"
    /\ operation_counter' = threads[t].tmp + 1
    /\ threads' = [threads EXCEPT ![t].pc = "sweep_test"]
    /\ UNCHANGED <<now, active_flows, ft_grant, th_start>>

\* start_flow, lines 65-67: the periodic cleanup is due or not.
ThSweepTest(t) ==
    /\ threads[t].pc = "sweep_test"
    /\ IF operation_counter >= CLEANUP_INTERVAL
         THEN /\ operation_counter' = 0
              /\ threads' = [threads EXCEPT ![t].pc = "sweep"]
         ELSE /\ UNCHANGED operation_counter
              /\ threads' = [threads EXCEPT ![t].pc = "force"]
    /\ UNCHANGED <<now, active_flows, ft_grant, th_start>>

\* cleanup_expired, lines 154-156: the iterator over _active_flows.items()
\* is made; it remembers the size of the map.
ThSweepBegin(t) ==
    /\ threads[t].pc = "sweep"
    /\ threads' = [threads EXCEPT ![t].size0 = Cardinality(DOMAIN active_flows),
                                  ![t].visited = {},
                                  ![t].expired = {},
                                  ![t].pc = "iterate"]
    /\ UNCHANGED <<now, active_flows, operation_counter, ft_grant, th_start>>

\* cleanup_expired, lines 155-159: one step of the iterator.  It raises
\* RuntimeError when the size of the map is no longer the one it remembers;
\* otherwise it yields an entry not yet seen (the model keeps no order of
\* the entries), or ends.
ThIterate(t) ==
    /\ threads[t].pc = "iterate"
    /\ IF Cardinality(DOMAIN active_flows) # threads[t].size0
         THEN threads' = [threads EXCEPT ![t].pc = "raised",
                                         ![t].exc = Raised("RuntimeError")]
         ELSE IF (DOMAIN active_flows) \ threads[t].visited = {}
         THEN threads' = [threads EXCEPT ![t].pc = "delete"]
         ELSE \E k \in (DOMAIN active_flows) \ threads[t].visited :
                  threads' = [threads EXCEPT
                      ![t].visited = @ \cup {k},
                      ![t].expired = IF IsExpired(active_flows[k], now)
                                       THEN @ \cup {k} ELSE @]
    /\ UNCHANGED <<now, active_flows, operation_counter, ft_grant, th_start>>

\* cleanup_expired, lines 161-171: del _active_flows[signal_id] for the next
\* id of the list `expired` (KeyError when it is no longer a key), or the
\* return; start_flow goes on with line 70.
ThDelete(t) ==
    /\ threads[t].pc = "delete"
    /\ IF threads[t].expired = {}
         THEN /\ threads' = [threads EXCEPT ![t].pc =
                                IF threads[t].call.op = "start_flow" THEN "force"
                                                                     ELSE "done"]
              /\ UNCHANGED active_flows
         ELSE \E k \in threads[t].expired :
                  IF k \in DOMAIN active_flows
                    THEN /\ active_flows' = DelFlows(active_flows, {k})
                         /\ threads' = [threads EXCEPT ![t].expired = @ \ {k}]
                    ELSE /\ threads' = [threads EXCEPT ![t].pc = "raised",
                                                       ![t].exc = Raised("KeyError")]
                         /\ UNCHANGED active_flows
    /\ UNCHANGED <<now, operation_counter, ft_grant, th_start>>

\* start_flow, lines 70-71: the forced cleanup when the map is over MAX_FLOWS
\* (taken as one step), and the return.
ThForce(t) ==
    /\ threads[t].pc = "force"
    /\ \E flows \in ForceIfOver(active_flows, threads[t].call.s) : active_flows' = flows
    /\ threads' = [threads EXCEPT ![t].pc = "done"]
    /\ UNCHANGED <<now, operation_counter, ft_grant, th_start>>

\* get_flow_owner, lines 83-94 without the del (is_allowed calls it at line
\* 111): flow = _active_flows.get(signal_id), then the tests on the local flow.
ThGet(t) ==
    /\ threads[t].pc = "get"
    /\ LET s == threads[t].call.s
       IN threads' = [threads EXCEPT ![t].pc =
              IF s \in DOMAIN active_flows /\ IsExpired(active_flows[s], now)
                THEN "evict" ELSE "done"]
    /\ UNCHANGED <<now, active_flows, operation_counter, ft_grant, th_start>>

\* get_flow_owner, line 91: del _active_flows[signal_id]
ThEvict(t) ==
    /\ threads[t].pc = "evict"
    /\ LET s == threads[t].call.s
       IN IF s \in DOMAIN active_flows
            THEN /\ active_flows' = DelFlows(active_flows, {s})
                 /\ threads' = [threads EXCEPT ![t].pc = "done"]
            ELSE /\ threads' = [threads EXCEPT ![t].pc = "raised",
                                               ![t].exc = Raised("KeyError")]
                 /\ UNCHANGED active_flows
    /\ UNCHANGED <<now, operation_counter, ft_grant, th_start>>

\* end_flow, line 137: if signal_id in _active_flows
ThEndTest(t) ==
    /\ threads[t].pc = "test"
    /\ threads' = [threads EXCEPT ![t].pc =
           IF threads[t].call.s \in DOMAIN active_flows THEN "read" ELSE "done"]
    /\ UNCHANGED <<now, active_flows, operation_counter, ft_grant, th_start>>

\* end_flow, line 138: flow = _active_flows[signal_id]
ThEndRead(t) ==
    /\ threads[t].pc = "read"
    /\ threads' = IF threads[t].call.s \in DOMAIN active_flows
                    THEN [threads EXCEPT ![t].pc = "del"]
                    ELSE [threads EXCEPT ![t].pc = "raised",
                                         ![t].exc = Raised("KeyError")]
    /\ UNCHANGED <<now, active_flows, operation_counter, ft_grant, th_start>>

\* end_flow, line 139: del _active_flows[signal_id]
ThEndDel(t) ==
    /\ threads[t].pc = "del"
    /\ LET s == threads[t].call.s
       IN IF s \in DOMAIN active_flows
            THEN /\ active_flows' = DelFlows(active_flows, {s})
                 /\ threads' = [threads EXCEPT ![t].pc = "done"]
            ELSE /\ threads' = [threads EXCEPT ![t].pc = "raised",
                                               ![t].exc = Raised("KeyError")]
                 /\ UNCHANGED active_flows
    /\ UNCHANGED <<now, operation_counter, ft_grant, th_start>>

ThreadsFrame == UNCHANGED <<chainVars, transVars, ctlVars, semVars, ocrVars, matchVars,
                            extractVars, mediaVars, singletonVars>>

NextThreads ==
    \/ \E t \in Threads : ThStore(t) /\ ThreadsFrame
    \/ \E t \in Threads : ThLoadCounter(t) /\ ThreadsFrame
    \/ \E t \in Threads : ThStoreCounter(t) /\ ThreadsFrame
    \/ \E t \in Threads : ThSweepTest(t) /\ ThreadsFrame
    \/ \E t \in Threads : ThSweepBegin(t) /\ ThreadsFrame
    \/ \E t \in Threads : ThIterate(t) /\ ThreadsFrame
    \/ \E t \in Threads : ThDelete(t) /\ ThreadsFrame
    \/ \E t \in Threads : ThForce(t) /\ ThreadsFrame
    \/ \E t \in Threads : ThGet(t) /\ ThreadsFrame
    \/ \E t \in Threads : ThEvict(t) /\ ThreadsFrame
    \/ \E t \in Threads : ThEndTest(t) /\ ThreadsFrame
    \/ \E t \in Threads : ThEndRead(t) /\ ThreadsFrame
    \/ \E t \in Threads : ThEndDel(t) /\ ThreadsFrame

(***************************************************************************)
(* get_replacer called from two threads                                    *)
(***************************************************************************)

\* The objects made by a thread: a threading.Lock, a SeamlessTextReplacer.
Lock(t) == [kind |-> "Lock", by |-> t]
Replacer(t) == [kind |-> "SeamlessTextReplacer", by |-> t]

\* A thread entering get_replacer.  lock is the lock object it has loaded
\* for the with statement, holds says that it has acquired it, made that it
\* has constructed a SeamlessTextReplacer, ret is the value it returned.
Caller ==
    [pc |-> "test_lock", lock |-> None, holds |-> FALSE, made |-> FALSE, ret |-> None]

\* Lines 706-707: both module globals are None.
InitSingleton ==
    /\ replacer_instance = None
    /\ replacer_lock = None
    /\ callers = [t \in Threads |-> Caller]

\* Line 717: if _replacer_lock is None
GrTestLock(t) ==
    /\ callers[t].pc = "test_lock"
    /\ callers' = [callers EXCEPT ![t].pc =
                      IF replacer_lock = None THEN "new_lock" ELSE "test_instance"]
    /\ UNCHANGED <<replacer_instance, replacer_lock>>

\* Line 718: _replacer_lock = threading.Lock()
GrNewLock(t) ==
    /\ callers[t].pc = "new_lock"
    /\ replacer_lock' = Lock(t)
    /\ callers' = [callers EXCEPT ![t].pc = "test_instance"]
    /\ UNCHANGED replacer_instance

\* Line 720: if _replacer_instance is None
GrTestInstance(t) ==
    /\ callers[t].pc = "test_instance"
    /\ callers' = [callers EXCEPT ![t].pc =
                      IF replacer_instance = None THEN "load_lock" ELSE "return"]
    /\ UNCHANGED <<replacer_instance, replacer_lock>>

\* Line 721, first half: the with statement loads the global _replacer_lock.
GrLoadLock(t) ==
    /\ callers[t].pc = "load_lock"
    /\ callers' = [callers EXCEPT ![t].lock = replacer_lock, ![t].pc = "acquire"]
    /\ UNCHANGED <<replacer_instance, replacer_lock>>

\* Line 721, second half: the loaded lock is acquired, once no other thread
\* holds that same lock object.
GrAcquire(t) ==
    /\ callers[t].pc = "acquire"
    /\ \A u \in Threads \ {t} : ~(callers[u].holds /\ callers[u].lock = callers[t].lock)
    /\ callers' = [callers EXCEPT ![t].holds = TRUE, ![t].pc = "test_again"]
    /\ UNCHANGED <<replacer_instance, replacer_lock>>

\* Line 722: if _replacer_instance is None, under the lock
GrTestAgain(t) ==
    /\ callers[t].pc = "test_again"
    /\ callers' = [callers EXCEPT ![t].pc =
                      IF replacer_instance = None THEN "construct" ELSE "release"]
    /\ UNCHANGED <<replacer_instance, replacer_lock>>

\* Line 723, right-hand side: SeamlessTextReplacer() is constructed (lines 143-147).
GrConstruct(t) ==
    /\ callers[t].pc = "construct"
    /\ callers' = [callers EXCEPT ![t].made = TRUE, ![t].pc = "store"]
    /\ UNCHANGED <<replacer_instance, replacer_lock>>

\* Line 723: the new object is stored in _replacer_instance.
GrStore(t) ==
    /\ callers[t].pc = "store"
    /\ replacer_instance' = Replacer(t)
    /\ callers' = [callers EXCEPT ![t].pc = "release"]
    /\ UNCHANGED replacer_lock

\* The with block of line 721 is left: the lock is released.
GrRelease(t) ==
    /\ callers[t].pc = "release"
    /\ callers' = [callers EXCEPT ![t].holds = FALSE, ![t].pc = "return"]
    /\ UNCHANGED <<replacer_instance, replacer_lock>>

\* Line 724: return _replacer_instance
GrReturn(t) ==
    /\ callers[t].pc = "return"
    /\ callers' = [callers EXCEPT ![t].ret = replacer_instance, ![t].pc = "done"]
    /\ UNCHANGED <<replacer_instance, replacer_lock>>

\* The same thread calls get_replacer again.
GrAgain(t) ==
    /\ callers[t].pc = "done"
    /\ callers' = [callers EXCEPT ![t].pc = "test_lock", ![t].lock = None, ![t].ret = None]
    /\ UNCHANGED <<replacer_instance, replacer_lock>>

SingletonFrame == UNCHANGED <<chainVars, flowVars, transVars, ctlVars, semVars, ocrVars,
                              matchVars, extractVars, mediaVars, threadVars>>

NextSingleton ==
    \/ \E t \in Threads : GrTestLock(t) /\ SingletonFrame
    \/ \E t \in Threads : GrNewLock(t) /\ SingletonFrame
    \/ \E t \in Threads : GrTestInstance(t) /\ SingletonFrame
    \/ \E t \in Threads : GrLoadLock(t) /\ SingletonFrame
    \/ \E t \in Threads : GrAcquire(t) /\ SingletonFrame
    \/ \E t \in Threads : GrTestAgain(t) /\ SingletonFrame
    \/ \E t \in Threads : GrConstruct(t) /\ SingletonFrame
    \/ \E t \in Threads : GrStore(t) /\ SingletonFrame
    \/ \E t \in Threads : GrRelease(t) /\ SingletonFrame
    \/ \E t \in Threads : GrReturn(t) /\ SingletonFrame
    \/ \E t \in Threads : GrAgain(t) /\ SingletonFrame

(***************************************************************************)
(* Specifications                                                          *)
(***************************************************************************)

\* The subsystems a specification does not run stay as constructed.
IdleChain ==
    /\ ch_given = <<>> /\ ch_providers = <<>> /\ ch_max_retries = 0
    /\ ch_pc = "absent" /\ ch_idx = 0 /\ ch_attempt = 0 /\ ch_calls = <<>>
    /\ ch_result = None /\ ch_last_error = None /\ ch_raised = None
    /\ ch_abandoned = FALSE

IdleTrans ==
    /\ tr_text = "" /\ tr_use_cache = FALSE /\ tr_pc = "idle"
    /\ tr_cached = Unbound
    /\ tr_translated = None /\ tr_model_used = None /\ tr_ret = None
    /\ tr_calls = <<>> /\ tr_cache = [t \in Texts |-> None]
    /\ tr_abandoned = {}

IdleSem ==
    /\ translation_semaphore = None /\ co_pc = <<>> /\ late_calls = 0

IdleOcr ==
    /\ PADDLEOCR_ENABLED = TRUE /\ paddleocr_disabled = FALSE
    /\ child = "none" /\ result_queue = <<>> /\ signals_sent = {}
    /\ ocr_pc = "idle" /\ ocr_ret = None
    /\ pi_args = None /\ pi_pc = "idle" /\ pi_ret = None /\ pi_saved = None
    /\ pi_error = None

IdleMatch ==
    /\ mt_boxes = <<>> /\ mt_translations = <<>> /\ mt_pc = "idle"
    /\ mt_matched = <<>> /\ mt_replaced = <<>>
    /\ mt_k = 0 /\ mt_heap = <<>> /\ mt_result_image = 0 /\ mt_samples = <<>>

IdleExtract ==
    /\ ex_chain = None /\ ex_result = Unbound /\ ex_ocr_result = Unbound
    /\ ex_pc = "idle" /\ ex_translations = <<>> /\ ex_dict = <<>> /\ ex_matcher = None

IdleMedia ==
    /\ md_handler = "handle_new_signal" /\ md_pc = "idle" /\ md_media_info = None
    /\ md_edit = Unbound /\ md_results = Unbound /\ md_status = "PROCESSING"
    /\ md_published = Unbound /\ md_files = {}

IdleThreads ==
    /\ threads = <<>> /\ th_start = None

IdleSingleton ==
    /\ replacer_instance = None /\ replacer_lock = None /\ callers = <<>>

IdleCtl ==
    /\ signals = <<>> /\ signal_updates = <<>> /\ published = <<>>
    /\ tasks = <<>> /\ delivered = 0
    /\ allowed_users_list = {}

ChainInit == InitChain /\ InitFlow /\ IdleTrans /\ IdleCtl /\ IdleSem /\ IdleOcr /\ IdleMatch /\ IdleExtract /\ IdleMedia /\ IdleThreads /\ IdleSingleton
FlowInit  == IdleChain /\ InitFlow /\ IdleTrans /\ IdleCtl /\ IdleSem /\ IdleOcr /\ IdleMatch /\ IdleExtract /\ IdleMedia /\ IdleThreads /\ IdleSingleton
TransInit == IdleChain /\ InitFlow /\ InitTrans /\ IdleCtl /\ IdleSem /\ IdleOcr /\ IdleMatch /\ IdleExtract /\ IdleMedia /\ IdleThreads /\ IdleSingleton
CtlInit   == IdleChain /\ InitCtl /\ IdleTrans /\ IdleSem /\ IdleOcr /\ IdleMatch /\ IdleExtract /\ IdleMedia /\ IdleThreads /\ IdleSingleton
SemInit   == IdleChain /\ InitFlow /\ IdleTrans /\ IdleCtl /\ InitSem /\ IdleOcr /\ IdleMatch /\ IdleExtract /\ IdleMedia /\ IdleThreads /\ IdleSingleton
OcrInit   == IdleChain /\ InitFlow /\ IdleTrans /\ IdleCtl /\ IdleSem /\ InitOcr /\ IdleMatch /\ IdleExtract /\ IdleMedia /\ IdleThreads /\ IdleSingleton
AnonInit  == IdleChain /\ InitAnon /\ IdleTrans /\ IdleSem /\ IdleOcr /\ IdleMatch /\ IdleExtract /\ IdleMedia /\ IdleThreads /\ IdleSingleton
MatchInit == IdleChain /\ InitFlow /\ IdleTrans /\ IdleCtl /\ IdleSem /\ IdleOcr /\ InitMatch /\ IdleExtract /\ IdleMedia /\ IdleThreads /\ IdleSingleton
ExtractInit == IdleChain /\ InitFlow /\ IdleTrans /\ IdleCtl /\ IdleSem /\ IdleOcr /\ IdleMatch /\ InitExtract /\ IdleMedia /\ IdleThreads /\ IdleSingleton
MediaInit == IdleChain /\ InitFlow /\ IdleTrans /\ IdleCtl /\ IdleSem /\ IdleOcr /\ IdleMatch /\ IdleExtract /\ InitMedia /\ IdleThreads /\ IdleSingleton

ThreadsInit == IdleChain /\ InitThreads /\ IdleTrans /\ IdleCtl /\ IdleSem /\ IdleOcr /\ IdleMatch /\ IdleExtract /\ IdleMedia /\ IdleSingleton

SingletonInit == IdleChain /\ InitFlow /\ IdleTrans /\ IdleCtl /\ IdleSem /\ IdleOcr /\ IdleMatch /\ IdleExtract /\ IdleMedia /\ IdleThreads /\ InitSingleton

SpecChain == ChainInit /\ [][NextChain]_vars
SpecFlow  == FlowInit /\ [][NextFlow]_vars
SpecTrans == TransInit /\ [][NextTrans]_vars
SpecCtl   == CtlInit /\ [][NextCtl]_vars
SpecSem   == SemInit /\ [][NextSem]_vars
SpecOcr   == OcrInit /\ [][NextOcr]_vars
SpecMatch == MatchInit /\ [][NextMatch]_vars
SpecAnon  == AnonInit /\ [][NextAnon]_vars
SpecExtract == ExtractInit /\ [][NextExtract]_vars
SpecMedia == MediaInit /\ [][NextMedia]_vars

\* Either chain at work, with the provider calls it has cut off: one
\* extract_text call of a vision chain, or one translate_text_with_fallback call.
SpecThreads == ThreadsInit /\ [][NextThreads]_vars

SpecSingleton == SingletonInit /\ [][NextSingleton]_vars

CallsInit == ChainInit \/ TransInit

NextCalls ==
    \/ ExtractTextStart /\ ChainFrame
    \/ AttemptSucceeds /\ ChainFrame
    \/ AttemptTimesOut /\ ChainFrame
    \/ AttemptRaises /\ ChainFrame
    \/ ChainAbandonedCompletes /\ ChainFrame
    \/ TrEntry /\ TransFrame
    \/ \E raises \in BOOLEAN : TrCacheLookup(raises) /\ TransFrame
    \/ \E how \in WaitFor, api \in GeminiApi : TrGemini(how, api) /\ TransFrame
    \/ TrAfterGemini /\ TransFrame
    \/ \E how \in WaitFor, api \in GoogleApi : TrGoogle(how, api) /\ TransFrame
    \/ \E raises \in BOOLEAN : TrCacheWriteAndReturn(raises) /\ TransFrame
    \/ \E p \in TrProviders : TrAbandonedCompletes(p) /\ TransFrame

SpecCalls == CallsInit /\ [][NextCalls]_vars

(***************************************************************************)
(* Claims                                                                  *)
(***************************************************************************)

\* The k-th call of a chain that never succeeds: providers in construction
\* order, max_retries + 1 consecutive attempts each.
ScheduledProvider(k) == ch_providers[((k - 1) \div (ch_max_retries + 1)) + 1]
ScheduledAttempt(k) == (k - 1) % (ch_max_retries + 1)

LastCall == ch_calls[Len(ch_calls)]

\* C1: extract_text calls the providers strictly in construction order and
\* returns the result of the first attempt that succeeds; no call follows a
\* successful one, so no later provider is called.
C1_OrderAndFirstSuccess ==
    /\ \A k \in 1..Len(ch_calls) :
         /\ ch_calls[k].provider = ScheduledProvider(k)
         /\ ch_calls[k].attempt = ScheduledAttempt(k)
    /\ \A k \in 1..(Len(ch_calls) - 1) : ch_calls[k].outcome # "ok"
    /\ (ch_pc = "returned") <=> (ch_calls # <<>> /\ LastCall.outcome = "ok")
    /\ ch_pc = "returned" =>
         ch_result = [kind |-> "VisionResult", provider |-> LastCall.provider,
                      attempt |-> LastCall.attempt]
    /\ ch_pc # "returned" => ch_result = None

\* C1 witness: three providers, every attempt on the first timed out, the
\* second succeeded and its result was returned, the third was never called.
C1_Witness ==
    /\ Len(ch_providers) = 3
    /\ ch_pc = "returned"
    /\ ch_result # None /\ ch_result.provider = ch_providers[2]
    /\ \A k \in 1..Len(ch_calls) :
         /\ ch_calls[k].provider = ch_providers[1] => ch_calls[k].outcome = "timeout"
         /\ ch_calls[k].provider # ch_providers[3]

\* C2: when every attempt on every provider fails, extract_text raises one
\* VisionProviderError naming the failure of the last attempt on the last
\* provider, and returns no result; it raises in no other case.
C2_ExhaustionRaisesLastError ==
    LET total == Len(ch_providers) * (ch_max_retries + 1)
        allFailed == /\ Len(ch_calls) = total
                     /\ \A k \in 1..Len(ch_calls) : ch_calls[k].outcome # "ok"
    IN /\ (ch_providers # <<>> /\ allFailed) => ch_pc = "raised"
       /\ ch_pc = "raised" =>
            /\ allFailed
            /\ ch_result = None
            /\ ch_raised # None
            /\ ch_raised.provider = ch_providers[Len(ch_providers)]
            /\ ch_raised.provider = LastCall.provider
            /\ ch_raised.attempt = ch_max_retries
            /\ ch_raised.kind = IF LastCall.outcome = "timeout"
                                  THEN "TimeoutError" ELSE "Exception"
       /\ ch_pc # "raised" => ch_raised = None

\* C2 witness: two providers, a retry each, failures of both kinds, raised.
C2_Witness ==
    /\ ch_pc = "raised"
    /\ Len(ch_providers) >= 2
    /\ ch_max_retries >= 1
    /\ \E k \in 1..Len(ch_calls) : ch_calls[k].outcome = "timeout"
    /\ \E k \in 1..Len(ch_calls) : ch_calls[k].outcome = "error"

\* Number of rows of `table` that came from source message msg_id.
RowCount(table, msg_id) ==
    Cardinality({i \in 1..Len(table) : table[i].source_message_id = msg_id})

\* C3: however the deliveries of one source message interleave, at most one
\* signal row and at most one update row is persisted for it (exactly one once
\* the message was accepted).
C3_OneRecordPerSourceMessage ==
    \A m \in Messages :
        /\ RowCount(signals, m.id) <= 1
        /\ RowCount(signal_updates, m.id) <= 1

\* The messages the update handler has published, and the rows it wrote.
UpdatePublished ==
    {p \in Rows(published) :
        p.task # 0 /\ tasks[p.task].handler = "handle_signal_update"}

\* The owner of a parent's flow: the tracked owner, else the row's author.
FlowOwnerOf(parent) ==
    LET got == get_flow_owner(active_flows, parent.id, now)
    IN IF got.ret # None THEN got.ret.id ELSE parent.source_user_id

\* C4: a reply whose sender is not the owner of the parent's flow leaves no
\* update row and no published message.
C4_NonOwnerReplyIgnored ==
    /\ \A u \in Rows(signal_updates) :
         FlowOwnerOf(signals[u.signal_id]) > 0 =>
             u.source_user_id = FlowOwnerOf(signals[u.signal_id])
    /\ \A p \in UpdatePublished :
         \A r \in FindBySourceMsg(signals, tasks[p.task].msg.reply_to_msg_id) :
             FlowOwnerOf(r) > 0 => tasks[p.task].msg.sender_id = FlowOwnerOf(r)

\* C5: whatever the update handler publishes is a reply to the stored
\* target_message_id of a signal row of the message replied to: never a
\* top-level message, never a reply to anything else.
C5_ReplyMirrorsParent ==
    \A p \in UpdatePublished :
        /\ p.reply_to # 0
        /\ p.reply_to = tasks[p.task].parent.target_message_id
        /\ \E r \in FindBySourceMsg(signals, tasks[p.task].msg.reply_to_msg_id) :
             r.target_message_id = p.reply_to

\* C5 witness: the reply (message 2) to the posted signal (message 1) is out,
\* as a reply to the target-group message of the signal.
C5_Witness ==
    \E p \in UpdatePublished :
        /\ p.source_message_id = 2
        /\ \E r \in Rows(signals) :
             /\ r.source_message_id = 1 /\ r.status = "POSTED"
             /\ p.reply_to = r.target_message_id

\* A signal row of the message m replies to that has a target_message_id.
HasPostedParent(m) ==
    \E r \in FindBySourceMsg(signals, m.reply_to_msg_id) : r.target_message_id # 0

\* C6: a message that is no reply, or whose parent has no signal row, or whose
\* parent row has no target_message_id, gets no update row and is not published
\* by the update handler.
C6_OrphanReplyIgnored ==
    \A m \in Messages :
        (m.reply_to_msg_id = 0 \/ ~HasPostedParent(m)) =>
            /\ RowCount(signal_updates, m.id) = 0
            /\ \A p \in UpdatePublished : p.source_message_id # m.id
            /\ \A t \in TaskIds :
                 (tasks[t].handler = "handle_signal_update" /\ tasks[t].msg = m) =>
                     tasks[t].pc \in {"find", "find_parent", "on_error", "crashed", "done"}
                     /\ tasks[t].rec_id = 0

\* C6 witness: the update handler has finished with a reply to an unposted
\* parent, with a reply to an unknown parent and, in another run, with a
\* reply lacking reply_to_msg_id; nothing was written.
C6_Witness ==
    /\ signal_updates = <<>>
    /\ Len(tasks) = 2
    /\ \A t \in TaskIds : tasks[t].handler = "handle_signal_update" /\ tasks[t].pc = "done"
    /\ \E r \in Rows(signals) : r.source_message_id = 1 /\ r.target_message_id = 0
    /\ tasks[1].msg.id = 2
    /\ tasks[2].msg.id \in {4, 5}

\* What get_flow_owner and is_allowed return for signal s in the current state.
OwnerNow(s) == get_flow_owner(active_flows, s, now).ret
AllowedNow(s, u) == is_allowed(active_flows, s, u, now).ret

\* The guarantee start_flow(s, A) gives while it is in force.
OwnerGuarantee(s) ==
    /\ OwnerNow(s) = [kind |-> "user", id |-> ft_grant[s].user_id]
    /\ AllowedNow(s, ft_grant[s].user_id) = TRUE
    /\ \A B \in UserIds \ {ft_grant[s].user_id} : AllowedNow(s, B) = FALSE

\* C7 as stated: after start_flow(s, A), within the TTL and with no later
\* start_flow or end_flow for s, the owner of s is A, A is allowed and nobody
\* else is; and with no flow for s everybody is allowed.
C7_OwnerWithinTtl ==
    /\ \A s \in SignalIds : ft_grant[s] # None => OwnerGuarantee(s)
    /\ \A s \in SignalIds : s \notin DOMAIN active_flows =>
           \A u \in UserIds : AllowedNow(s, u) = TRUE

\* C7 amended: the same, for a flow that no forced cleanup (a start_flow that
\* took the map over MAX_FLOWS) has evicted since it was started.
C7_OwnerWithinTtlUnlessEvicted ==
    /\ \A s \in SignalIds :
         (ft_grant[s] # None /\ ~ft_grant[s].forced) => OwnerGuarantee(s)
    /\ \A s \in SignalIds : s \notin DOMAIN active_flows =>
           \A u \in UserIds : AllowedNow(s, u) = TRUE

\* C7 witness: a flow at the very end of its TTL, still owned, while another
\* signal has no flow at all.
C7_Witness ==
    \E s \in SignalIds :
        /\ ft_grant[s] # None /\ ~ft_grant[s].forced
        /\ now - ft_grant[s].timestamp = FLOW_TTL
        /\ \E B \in UserIds : ~AllowedNow(s, B)
        /\ \E s2 \in SignalIds : s2 \notin DOMAIN active_flows

\* C8: for a flow older than FLOW_TTL, get_flow_owner returns None and leaves
\* a map without the entry, in which is_allowed is true for every user.
C8_ExpiredFlowEvictedOnRead ==
    \A s \in DOMAIN active_flows :
        IsExpired(active_flows[s], now) =>
            LET got == get_flow_owner(active_flows, s, now) IN
            /\ got.ret = None
            /\ s \notin DOMAIN got.flows
            /\ \A k \in DOMAIN got.flows : k # s /\ got.flows[k] = active_flows[k]
            /\ \A u \in UserIds : is_allowed(got.flows, s, u, now).ret = TRUE

\* C8 witness: an expired flow is still in the map.
C8_Witness ==
    \E s \in DOMAIN active_flows :
        /\ IsExpired(active_flows[s], now)
        /\ \E k \in DOMAIN active_flows : ~IsExpired(active_flows[k], now)

\* C9: the map never holds more than MAX_FLOWS flows once start_flow returned.
C9_FlowsBounded == Cardinality(DOMAIN active_flows) <= MAX_FLOWS

\* C9 witness: a forced cleanup has evicted a live flow and the map is full.
C9_Witness ==
    /\ Cardinality(DOMAIN active_flows) = MAX_FLOWS
    /\ \E s \in SignalIds : ft_grant[s] # None /\ ft_grant[s].forced

\* C10: translate_text_with_fallback has returned a string.
C10_AlwaysReturnsString ==
    tr_pc = "done" => (tr_ret # None /\ tr_ret.kind = "str")

\* One step of handler task t, whichever it is.
TaskStep(t) ==
    \/ SigFind(t) \/ SigInsert(t) \/ SigProcessing(t) \/ SigPrepare(t)
    \/ SigPublish(t) \/ SigRecord(t) \/ SigOnError(t)
    \/ UpdFind(t) \/ UpdFindParent(t) \/ UpdInsert(t) \/ UpdPrepare(t)
    \/ UpdPublish(t) \/ UpdRecord(t) \/ UpdOnError(t)

Finished(t) == tasks[t].pc \in {"done", "crashed"}

\* C11 as stated: no handler ever ends with an exception.
C11_HandlersNeverRaise ==
    \A t \in TaskIds : tasks[t].pc # "crashed"

\* C11 amended: a handler ends with an exception only out of the idempotency
\* lookup at its start or out of the error-status write of its except branch;
\* a step of one task changes no other task and no other task's row, a
\* finished task stays as it is, and whatever the others did (failed, crashed)
\* an unfinished task can take its next step.
C11_FailureStaysInTask ==
    [][\A t \in TaskIds :
        /\ (tasks'[t].pc = "crashed" /\ tasks[t].pc # "crashed") =>
               \/ tasks[t].pc = "find"
               \/ tasks[t].pc = "on_error" /\ tasks[t].rec_id # 0
        /\ tasks'[t] # tasks[t] =>
               /\ \A u \in TaskIds \ {t} : tasks'[u] = tasks[u]
               /\ \A i \in 1..Len(signals) : signals'[i] # signals[i] =>
                      tasks[t].handler = "handle_new_signal" /\ tasks[t].rec_id = i
               /\ \A i \in 1..Len(signal_updates) : signal_updates'[i] # signal_updates[i] =>
                      tasks[t].handler = "handle_signal_update" /\ tasks[t].rec_id = i
        /\ Finished(t) => tasks'[t] = tasks[t]
        /\ ~Finished(t) => ENABLED TaskStep(t)
      ]_vars

\* C11 witness: one handler died of an exception, and the handler of a later
\* item has run to its end and posted.
C11_Witness ==
    \E t, u \in TaskIds :
        /\ t < u
        /\ tasks[t].pc = "crashed"
        /\ tasks[u].pc = "done" /\ tasks[u].msg # tasks[t].msg
        /\ \E p \in Rows(published) : p.task = u

\* The status of the row task t has inserted.
StatusOf(t) ==
    IF tasks[t].handler = "handle_new_signal"
      THEN signals[tasks[t].rec_id].status
      ELSE signal_updates[tasks[t].rec_id].status

\* C12 as stated: once the publish of an item has failed its row is never
\* POSTED, and when the handler is over the row is ERROR_POSTING_FAILED.
C12_PublishFailureRecorded ==
    \A t \in TaskIds : tasks[t].publish_failed =>
        /\ StatusOf(t) # "POSTED"
        /\ Finished(t) => StatusOf(t) = "ERROR_POSTING_FAILED"

\* C12 amended: once the publish of an item has failed its row is never
\* POSTED; it is ERROR_POSTING_FAILED when the handler has returned, and when
\* the write of that status failed the handler ended with that exception and
\* the row kept the status it had before the publish.
C12_PublishFailureNeverPosted ==
    \A t \in TaskIds : tasks[t].publish_failed =>
        /\ tasks[t].rec_id # 0
        /\ StatusOf(t) # "POSTED"
        /\ tasks[t].pc \in {"on_error", "done", "crashed"}
        /\ tasks[t].pc = "done" => StatusOf(t) = "ERROR_POSTING_FAILED"
        /\ tasks[t].pc # "done" => StatusOf(t) \in {"PROCESSING", "ERROR_TRANSLATION_FAILED"}
        /\ \A p \in Rows(published) : p.task # t

\* C12 witness: the publish of a reply has failed, its handler has returned
\* and its row is at ERROR_POSTING_FAILED, next to the POSTED row of its parent.
C12_Witness ==
    \E t \in TaskIds :
        /\ tasks[t].publish_failed /\ tasks[t].pc = "done"
        /\ tasks[t].handler = "handle_signal_update"
        /\ StatusOf(t) = "ERROR_POSTING_FAILED"
        /\ signals[tasks[t].parent.id].status = "POSTED"

ErrorStatuses == {"ERROR_TRANSLATION_FAILED", "ERROR_POSTING_FAILED"}

AttemptsOn(p) == {k \in 1..Len(ch_calls) : ch_calls[k].provider = p}

\* C14: in one extract_text call every provider gets at most max_retries + 1
\* attempts, one after the other (once the chain has left a provider it never
\* comes back to it); an attempt in progress can always be cut off
\* by the timeout; and the call is over after at most
\* |providers| * (max_retries + 1) attempts.
C14_AttemptsBounded ==
    LET total == Len(ch_providers) * (ch_max_retries + 1) IN
    /\ \A p \in ProviderIds : Cardinality(AttemptsOn(p)) <= ch_max_retries + 1
    /\ \A j \in 1..(Len(ch_calls) - 1) :
         ch_calls[j + 1].provider # ch_calls[j].provider
             => \A k \in (j + 1)..Len(ch_calls) : ch_calls[k].provider # ch_calls[j].provider
    /\ Len(ch_calls) <= total
    /\ ch_pc = "trying" => (Len(ch_calls) < total /\ ENABLED AttemptTimesOut)
    /\ Len(ch_calls) = total => ch_pc \in {"returned", "raised", "ctor_raised"}

\* C14 witness: with several providers and retries, the call went through
\* every attempt it may make, and the very last one succeeded.
C14_Witness ==
    /\ Len(ch_providers) >= 2 /\ ch_max_retries >= 1
    /\ Len(ch_calls) = Len(ch_providers) * (ch_max_retries + 1)
    /\ ch_pc = "returned"

\* Positions of the given providers whose is_available is true.
AvailableGiven == {i \in 1..Len(ch_given) : ch_given[i].is_available}

\* C15: the chain holds exactly the given providers that are available, in the
\* order given; with none available the constructor raises and no call is ever
\* made; extract_text never calls a provider that was excluded.
C15_OnlyAvailableProviders ==
    /\ {ch_providers[k] : k \in 1..Len(ch_providers)} =
           {ch_given[i].id : i \in AvailableGiven}
    /\ Len(ch_providers) = Cardinality(AvailableGiven)
    /\ \A j, k \in 1..Len(ch_providers) :
         j < k => \E a, b \in AvailableGiven :
                     /\ a < b
                     /\ ch_given[a].id = ch_providers[j]
                     /\ ch_given[b].id = ch_providers[k]
    /\ (AvailableGiven = {}) <=> (ch_pc = "ctor_raised")
    /\ ch_pc = "ctor_raised" => ch_calls = <<>>
    /\ \A k \in 1..Len(ch_calls) :
         \E i \in AvailableGiven : ch_given[i].id = ch_calls[k].provider

\* C15 witness: the first of the given providers is unavailable, the two
\* others were tried through to the end.
C15_Witness ==
    /\ ~ch_given[1].is_available
    /\ Len(ch_providers) = 2
    /\ ch_pc = "raised"
    /\ \A k \in 1..Len(ch_calls) : ch_calls[k].provider # ch_given[1].id

\* What the vision chain has handed or will hand to its caller.
ChainOutcome == <<ch_pc, ch_idx, ch_attempt, ch_calls, ch_result, ch_last_error, ch_raised>>
\* The same for the translation chain.
TransOutcome == <<tr_pc, tr_translated, tr_model_used, tr_ret, tr_calls, tr_cache>>

\* The chains never wait for a call they have cut off: whatever still runs,
\* the next attempt or fallback step can be taken at once.
NoWaitForAbandoned ==
    /\ ch_pc = "trying" => (ENABLED AttemptSucceeds /\ ENABLED AttemptRaises)
    /\ tr_pc = "after_gemini" => ENABLED TrAfterGemini
    /\ tr_pc = "google" => ENABLED (\E how \in WaitFor, api \in GoogleApi : TrGoogle(how, api))
    /\ tr_pc = "cache_write" => ENABLED (\E raises \in BOOLEAN : TrCacheWriteAndReturn(raises))

\* What a chain returns never comes from a call that timed out.
ResultNotFromTimedOutCall ==
    /\ ch_pc = "returned" =>
         /\ LastCall.outcome = "ok"
         /\ ch_result = [kind |-> "VisionResult", provider |-> LastCall.provider,
                         attempt |-> LastCall.attempt]
    /\ ch_pc # "returned" => ch_result = None
    /\ (tr_pc = "done" /\ tr_calls # <<>>) =>
         \/ tr_ret = Str(tr_text)        \* nothing came in time: the original text
         \/ tr_ret = tr_translated /\ tr_model_used = Str(tr_calls[Len(tr_calls)])
                                   /\ tr_calls[Len(tr_calls)] \notin tr_abandoned

\* C16: a provider call that timed out is abandoned.  The step that cuts it
\* off moves the chain straight to the next attempt or fallback step, which
\* can be taken while the call still runs; when the call ends later, nothing
\* of what the chain returns or works with changes; a returned result stays
\* what it was and is never the result of a call that timed out.
C16_TimedOutCallAbandoned ==
    [][ /\ NoWaitForAbandoned
        /\ ResultNotFromTimedOutCall /\ ResultNotFromTimedOutCall'
        /\ (ch_abandoned /\ ~ch_abandoned') => UNCHANGED ChainOutcome
        /\ (tr_abandoned' # tr_abandoned /\ tr_abandoned' \subseteq tr_abandoned)
              => UNCHANGED TransOutcome
        /\ ch_pc = "returned" => UNCHANGED <<ch_pc, ch_result>>
        /\ tr_pc = "done" => UNCHANGED <<tr_pc, tr_ret>>
      ]_vars

\* C16 witness: the first provider's attempt timed out and still runs while
\* the chain has already returned the result of a later attempt.
C16_Witness ==
    /\ ch_pc = "returned"
    /\ ch_abandoned
    /\ ch_calls[1].outcome = "timeout"
    /\ ch_result.provider # ch_calls[1].provider

\* The translation-provider calls executing now: those a coroutine waits for
\* and those cut off by a timeout whose thread has not ended.
ExecutingCalls ==
    Cardinality({c \in Items : co_pc[c] \in {"gemini", "google"}}) + late_calls

\* C17: across all items at most MAX_CONCURRENT_TRANSLATIONS
\* translation-provider calls are executing at any moment.
C17_AtMostMaxExecuting == ExecutingCalls <= MAX_CONCURRENT_TRANSLATIONS

\* C18: with caching on, when the lookup hands back a translation the call
\* returns exactly it and no provider has been called; a lookup that raises
\* (cached stays unbound) leaves the call on the path of a miss, which ends
\* only after a provider has been called.
C18_CacheHitShortCircuits ==
    /\ tr_cached # Unbound => (tr_use_cache /\ ~IsBlank(tr_text))
    /\ tr_cached \notin {Unbound, None} =>
         /\ tr_pc = "done"
         /\ tr_ret = tr_cached
         /\ tr_cached = tr_cache[tr_text]
         /\ tr_calls = <<>>
    /\ (tr_cached \in {Unbound, None} /\ ~IsBlank(tr_text) /\ tr_pc = "done") =>
         tr_calls # <<>>

\* C18 witness: a call with caching on found the text in the cache and
\* returned the cached translation with no provider call.
C18_Witness ==
    /\ tr_use_cache /\ tr_pc = "done"
    /\ tr_cached = Str("en-cached")
    /\ tr_ret = Str("en-cached")
    /\ tr_calls = <<>>

NothingToReplace ==
    /\ pi_pc = "done" /\ ocr_pc = "returned"
    /\ \/ extract_bounding_boxes(ocr_ret) = <<>>
       \/ match_translations(extract_bounding_boxes(ocr_ret), pi_args.translations) = <<>>

\* C20 as stated: when detection yields no text or no box matches, the
\* original bitmap is returned unchanged.
C20_ReturnsOriginalUnchanged ==
    NothingToReplace => pi_ret = pi_args.image.bitmap

\* C20: when detection yields no text or no box matches, process_image_sync
\* returns the image as converted to RGB with nothing replaced, which for an
\* RGB file is the original bitmap; only when output_path is given (and the
\* save fails) it returns None instead.  What it saved is what it returned.
C20_ReturnsUneditedImage ==
    NothingToReplace =>
        /\ pi_ret \in {convert_RGB(pi_args.image.bitmap), None}
        /\ pi_ret = None => pi_args.output_path
        /\ (pi_ret # None /\ pi_args.image.bitmap.mode = "RGB") =>
              pi_ret = pi_args.image.bitmap
        /\ pi_saved \in {None, pi_ret}
        /\ pi_saved # None => pi_args.output_path

\* C20 witness: text was detected, no translation matched it, and the RGB
\* original came back.
C20_Witness ==
    /\ NothingToReplace
    /\ extract_bounding_boxes(ocr_ret) # <<>>
    /\ pi_args.translations # <<>>
    /\ pi_ret = pi_args.image.bitmap

\* process_image_sync has ended by way of its except clause.
ExceptionCaught == pi_pc = "done" /\ pi_error # None

Matched == mt_pc \in {"replace", "loop", "done"}

OverlapByArea(r, p) == r[1] < p[3] /\ p[1] < r[3] /\ r[2] < p[4] /\ p[2] < r[4]

RectOf(match) == mt_boxes[match[1]].bbox_rect

InList(match, list) == \E k \in 1..Len(list) : list[k] = match

\* C23 as stated: no two boxes whose rectangles overlap by a nonzero area are
\* both in the list match_translations returns.
C23_NoOverlapInMatchList ==
    Matched =>
        \A i, j \in 1..Len(mt_matched) :
            i # j => ~OverlapByArea(RectOf(mt_matched[i]), RectOf(mt_matched[j]))

\* C23: no two boxes whose rectangles overlap by a nonzero area are both
\* replaced; a match is left out exactly when its rectangle overlaps that of
\* a match replaced before it, and the earlier one stays.
C23_NoOverlapAmongReplaced ==
    mt_pc = "done" =>
        /\ \A i, j \in 1..Len(mt_replaced) :
               i # j => ~OverlapByArea(RectOf(mt_replaced[i]), RectOf(mt_replaced[j]))
        /\ \A k \in 1..Len(mt_matched) :
               InList(mt_matched[k], mt_replaced)
                   <=> ~\E j \in 1..(k - 1) :
                            /\ InList(mt_matched[j], mt_replaced)
                            /\ Overlaps(RectOf(mt_matched[k]), RectOf(mt_matched[j]))

\* Two matched boxes overlap by a nonzero area; only the first was replaced.
C23_Witness ==
    /\ mt_pc = "done"
    /\ Len(mt_matched) = 2
    /\ OverlapByArea(RectOf(mt_matched[1]), RectOf(mt_matched[2]))
    /\ mt_replaced = <<mt_matched[1]>>

\* C24: with two detected boxes of texts "LONG" and "LON" and the single
\* translation pair "LONG" -> replacement, exactly one box is matched and it
\* is the box whose text is "LONG", whatever the rectangles and the order.
C24_ExactBoxWins ==
    /\ Matched
    /\ Len(mt_boxes) = 2
    /\ {mt_boxes[1].text, mt_boxes[2].text} = {LONG, LON}
    /\ mt_translations = << <<LONG, "LONG-ru">> >>
    => /\ Len(mt_matched) = 1
       /\ mt_boxes[mt_matched[1][1]].text = LONG

\* The parent signal of update task t has no identified author.
ParentUnidentified(t) ==
    /\ tasks[t].handler = "handle_signal_update"
    /\ tasks[t].parent # None
    /\ tasks[t].parent.source_user_id = 0

\* Update task t has inserted its record and published its message.
UpdateProcessed(t) ==
    /\ tasks[t].rec_id # 0
    /\ signal_updates[tasks[t].rec_id].source_message_id = tasks[t].msg.id
    /\ \E p \in Rows(published) : p.task = t /\ p.reply_to = tasks[t].parent.target_message_id

\* C25: a reply is dropped at the parent check only when the lookup hands
\* back no signal or one that was not posted, never because of its sender; a
\* reply to a signal whose source_user_id is 0 has, unless one of its steps
\* fails, its update record inserted and its message published, whoever sent
\* it; no flow is ever started for such a signal.
C25_UnidentifiedParentOpenToAll ==
    /\ [][\A t \in TaskIds :
            /\ tasks[t].handler = "handle_signal_update"
            /\ tasks[t].pc = "find_parent"
            /\ tasks'[t].pc = "done"
            => LET found == FindBySourceMsg(signals, tasks[t].msg.reply_to_msg_id)
               IN found = {} \/ \E r \in found : r.target_message_id = 0]_vars
    /\ [](\A t \in TaskIds :
            ParentUnidentified(t) /\ tasks[t].pc = "done"
            => \/ UpdateProcessed(t)
               \/ tasks[t].rec_id = 0
               \/ signal_updates[tasks[t].rec_id].status = "ERROR_POSTING_FAILED")
    /\ [](\A r \in Rows(signals) :
            r.source_user_id = 0 => r.id \notin DOMAIN active_flows)

\* Replies of two different users to the signal of an unidentified sender
\* were both processed, and that signal has no flow.
C25_Witness ==
    /\ \E t, u \in TaskIds :
          /\ ParentUnidentified(t) /\ ParentUnidentified(u)
          /\ tasks[t].parent = tasks[u].parent
          /\ tasks[t].msg.sender_id # tasks[u].msg.sender_id
          /\ tasks[t].pc = "done" /\ tasks[u].pc = "done"
          /\ UpdateProcessed(t) /\ UpdateProcessed(u)
          /\ signal_updates[tasks[t].rec_id].status = "POSTED"
          /\ signal_updates[tasks[u].rec_id].status = "POSTED"
          /\ tasks[t].parent.id \notin DOMAIN active_flows

\* C26: in every state of the tracker end_flow(s) can be called, and in the
\* map it leaves get_flow_owner(s) is None and is_allowed(s, u) is True for
\* every u; every other tracked flow is as before; when s has no flow the
\* map is as before.
C26_EndFlowReleases ==
    \A s \in SignalIds :
        LET after == ended(active_flows, s) IN
        /\ ENABLED (end_flow(s) /\ FlowFrame)
        /\ get_flow_owner(after, s, now).ret = None
        /\ \A u \in UserIds : is_allowed(after, s, u, now).ret = TRUE
        /\ DOMAIN after = (DOMAIN active_flows) \ {s}
        /\ \A k \in DOMAIN after : after[k] = active_flows[k]
        /\ s \notin DOMAIN active_flows => after = active_flows

\* The one flow started so far is gone before any time has passed: only
\* end_flow removes a flow that has not expired.
C26_Witness ==
    /\ now = 0
    /\ operation_counter = 1
    /\ DOMAIN active_flows = {}

NoEditedImage == md_edit # Unbound /\ md_edit.v # "edited"

ItemPublished == md_published # Unbound

\* C28 as stated: whenever image editing produced no edited image, the item
\* is published with the downloaded file itself.
C28_PublishedWithDownloadedFile ==
    NoEditedImage /\ ItemPublished => md_published = LocalFile

\* C28: the outcome of image editing never sends the handler to its error
\* branch nor changes the status of the record; when process_image hands
\* back None or raises, the item is published with the downloaded file, and
\* when the replacer had nothing to replace, with the unedited copy it saved.
C28_EditFailureStillPublishes ==
    /\ [][/\ md_pc' = "on_error" /\ md_pc = "gather"
             => IsException(md_results'.translation)
          /\ md_status' # md_status /\ md_status' # "POSTED"
             => \/ md_pc = "on_error"
                \/ md_pc = "gather" /\ IsException(md_results'.translation)]_vars
    /\ [](NoEditedImage /\ ItemPublished =>
            IF md_edit.v = "nothing_replaced"
              THEN md_published = OutputFile("unedited RGB copy")
              ELSE md_published = LocalFile)

\* Image editing failed, and the item was posted with the downloaded file.
C28_Witness ==
    /\ md_pc = "done"
    /\ md_status = "POSTED"
    /\ md_edit \in {Str("editor_raises"), Str("import_error"), Str("replacer_none")}
    /\ md_published = LocalFile

\* C29: there are never more handler tasks than delivered messages; the
\* task of a message whose text is a signal for its sender runs
\* handle_new_signal, reply or not; any other task runs handle_signal_update
\* and its message is a reply; a message that is neither has no task.
C29_OneHandlerPerMessage ==
    /\ Len(tasks) <= delivered
    /\ \A t \in TaskIds :
          IF tasks[t].msg.is_signal
            THEN tasks[t].handler = "handle_new_signal"
            ELSE tasks[t].handler = "handle_signal_update" /\ tasks[t].msg.is_reply

\* A signal that is also a reply went to handle_new_signal, and a message
\* that is neither a signal nor a reply started no task.
C29_Witness ==
    /\ delivered = 2
    /\ Len(tasks) = 1
    /\ tasks[1].msg.is_signal /\ tasks[1].msg.is_reply
    /\ tasks[1].handler = "handle_new_signal"

\* C30: within one call of translate_text_with_fallback each provider is
\* called at most once, Gemini first; Google Translate is called only when
\* the Gemini attempt is over and has left no translation; once Gemini has
\* yielded a translation, Google Translate is not called.
C30_GoogleOnlyAfterGeminiFailed ==
    /\ [](tr_calls \in {<<>>, <<"gemini">>, <<"gemini", "google_translate">>})
    /\ [][tr_calls' # tr_calls /\ tr_calls'[Len(tr_calls')] = "google_translate"
            => tr_calls = <<"gemini">> /\ tr_translated = None]_vars
    /\ [](tr_model_used = Str("gemini") /\ tr_translated # None
            => tr_calls = <<"gemini">>)

\* Gemini was cut off by its timeout, then Google Translate was called and
\* yielded the translation.
C30_Witness ==
    /\ tr_calls = <<"gemini", "google_translate">>
    /\ "gemini" \in tr_abandoned
    /\ tr_model_used = Str("google_translate")
    /\ tr_translated = Str("en-google")


\* Box i is considered before box j: larger area, or equal area and earlier
\* in the list of detected boxes.
ConsideredBefore(i, j) ==
    LET a == Area(mt_boxes[i].bbox_rect)
        b == Area(mt_boxes[j].bbox_rect)
    IN a > b \/ (a = b /\ i < j)

\* The replacement texts given to the boxes considered before box i.
GivenBefore(i) ==
    {mt_matched[k][2] : k \in {n \in 1..Len(mt_matched) : ConsideredBefore(mt_matched[n][1], i)}}

\* The score of pair k for box i (six times the score of the code).
PairScore(i, k) == MatchScore(strip(mt_boxes[i].text), mt_translations[k][1])

\* The pairs whose replacement text is not among `given`.
PairsLeft(given) == {k \in 1..Len(mt_translations) : mt_translations[k][2] \notin given}

\* The first of the highest-scoring pairs of `left` for box i, 0 if none scores.
TopPair(i, left) ==
    LET scoring == {k \in left : PairScore(i, k) > 0}
    IN IF scoring = {} THEN 0
       ELSE CHOOSE k \in scoring :
                \A n \in scoring : \/ PairScore(i, n) < PairScore(i, k)
                                   \/ PairScore(i, n) = PairScore(i, k) /\ k <= n

\* The matching that never takes a pair twice, but takes a pair whose
\* replacement text another pair has already supplied.
RECURSIVE MatchByPair(_, _, _)
MatchByPair(todo, taken, out) ==
    IF todo = {} THEN out
    ELSE LET i == CHOOSE b \in todo : \A c \in todo \ {b} : ConsideredBefore(b, c)
             k == TopPair(i, (1..Len(mt_translations)) \ taken)
         IN IF k # 0 /\ PairScore(i, k) >= 240 /\ mt_translations[k][2] # ""
              THEN MatchByPair(todo \ {i}, taken \cup {k},
                               Append(out, <<i, mt_translations[k][2]>>))
              ELSE MatchByPair(todo \ {i}, taken, out)

\* C31 as stated: the returned list is what results from giving each box, in
\* non-increasing order of area, the highest-scoring pair not taken by an
\* earlier box, if it scores at least 40.
C31_HighestUnusedPair ==
    Matched => mt_matched = MatchByPair(1..Len(mt_boxes), {}, <<>>)

\* C31: the returned list is in non-increasing order of area; a box in it
\* has the replacement text of the first highest-scoring pair among those
\* whose replacement text no earlier box was given, and that pair scores at
\* least 40; a box not in it has no such pair that scores, or the
\* replacement text of that pair is empty.
C31_LargestFirstBestFreeText ==
    Matched =>
        /\ \A m, n \in 1..Len(mt_matched) :
               m < n => ConsideredBefore(mt_matched[m][1], mt_matched[n][1])
        /\ \A i \in 1..Len(mt_boxes) :
               LET k == TopPair(i, PairsLeft(GivenBefore(i)))
                   mine == {n \in 1..Len(mt_matched) : mt_matched[n][1] = i}
               IN IF k # 0 /\ mt_translations[k][2] # ""
                    THEN /\ PairScore(i, k) >= 240
                         /\ \E n \in mine : mt_matched[n][2] = mt_translations[k][2]
                    ELSE mine = {}

\* The larger box took the replacement text of its exact pair; the smaller
\* box fits another pair exactly, but that pair has the same replacement
\* text, and the box is left without one.
C31_Witness ==
    /\ Matched
    /\ Len(mt_boxes) = 2
    /\ Area(mt_boxes[1].bbox_rect) > Area(mt_boxes[2].bbox_rect)
    /\ mt_boxes[1].text = LONG /\ mt_boxes[2].text = LON
    /\ mt_translations = << <<LONG, "LONG-ru">>, <<LON, "LONG-ru">> >>
    /\ mt_matched = << <<1, "LONG-ru">> >>


\* C32: run_paddleocr_with_timeout returns data only if the subprocess has
\* exited with a success report on the queue, and then that report's data;
\* with an error report, with nothing on the queue, with no subprocess
\* started, and when process.start() or process.join() raises, it returns
\* None; it has no position at which an exception has left it.
C32_DataOnlyOnSuccess ==
    /\ [](/\ ocr_pc \in {"idle", "join", "grace", "returned"}
          /\ ocr_ret # None =>
                /\ ocr_pc = "returned" /\ child = "exited"
                /\ Len(result_queue) = 1
                /\ result_queue[1].status = "success"
                /\ ocr_ret = result_queue[1].data
          /\ (ocr_pc = "returned" /\ result_queue # <<>>
                /\ result_queue[1].status = "error") => ocr_ret = None
          /\ (ocr_pc = "returned" /\ result_queue = <<>>) => ocr_ret = None
          /\ (ocr_pc = "returned" /\ child = "none") => ocr_ret = None)
    /\ [][(OcrStart(TRUE) \/ \E get_raises \in BOOLEAN : OcrJoined(TRUE, get_raises))
              => (ocr_pc' = "returned" /\ ocr_ret' = None)]_vars

\* The subprocess put an error on the queue and exited; the call returned None.
C32_Witness ==
    /\ ocr_pc = "returned"
    /\ child = "exited"
    /\ result_queue = <<[status |-> "error", data |-> Str("error")]>>
    /\ ocr_ret = None
    /\ ~paddleocr_disabled


\* C33: a call that found its subprocess alive after the timeout returns
\* with _paddleocr_disabled set; the flag, once set, stays set; a call made
\* while it is set returns None at once and starts no subprocess; and
\* nothing but the timeout path sets the flag, so a call whose subprocess
\* reported an error leaves it as it was.
C33_TimeoutDisablesForGood ==
    /\ [][(ocr_pc = "grace" /\ ocr_pc' = "returned") => paddleocr_disabled']_vars
    /\ [][paddleocr_disabled => paddleocr_disabled']_vars
    /\ [][(paddleocr_disabled /\ ocr_pc = "idle" /\ ocr_pc' # "idle") =>
              (ocr_pc' = "returned" /\ ocr_ret' = None /\ child' = "none")]_vars
    /\ [][(paddleocr_disabled /\ child = "none") => child' = "none"]_vars
    /\ [][(~paddleocr_disabled /\ paddleocr_disabled') => ocr_pc = "grace"]_vars
    /\ [](ocr_pc = "returned" /\ child = "exited" /\ "SIGTERM" \notin signals_sent
            /\ result_queue # <<>> /\ result_queue[1].status = "error"
            => ~paddleocr_disabled)

\* After a call that timed out, a later call with PaddleOCR enabled in the
\* environment has returned None with no subprocess started.
C33_Witness ==
    /\ PADDLEOCR_ENABLED /\ paddleocr_disabled
    /\ pi_pc = "detect" /\ ocr_pc = "returned"
    /\ child = "none" /\ signals_sent = {}
    /\ ocr_ret = None


\* What one call, run alone from the map and counter of st, leaves behind.
SeqCall(c, st) ==
    CASE c.op = "start_flow" ->
           LET flows1   == [k \in (DOMAIN st.flows) \cup {c.s} |->
                               IF k = c.s THEN FlowInfo(c.u, now) ELSE st.flows[k]]
               counter1 == st.counter + 1
               flows2   == SweepIfDue(flows1, counter1, now)
               counter2 == IF counter1 >= CLEANUP_INTERVAL THEN 0 ELSE counter1
           IN {[flows |-> f, counter |-> counter2] : f \in ForceIfOver(flows2, c.s)}
      [] c.op \in {"get_flow_owner", "is_allowed"} ->
           {[st EXCEPT !.flows = get_flow_owner(st.flows, c.s, now).flows]}
      [] c.op = "end_flow" ->
           {[st EXCEPT !.flows = ended(st.flows, c.s)]}
      [] OTHER ->
           {[st EXCEPT !.flows = cleanup_expired(st.flows, now)]}

\* The maps the two calls leave when one runs after the other, in either order.
SequentialMaps ==
    LET run(first, second) ==
            UNION {SeqCall(threads[second].call, m) :
                       m \in SeqCall(threads[first].call, th_start)}
    IN {o.flows : o \in run("A", "B") \cup run("B", "A")}

\* No thread's call has raised.
NoThreadRaised == \A t \in Threads : threads[t].exc = None

\* Once both calls are over the map is one that a sequential order leaves.
MapIsSequential ==
    (\A t \in Threads : threads[t].pc = "done") => active_flows \in SequentialMaps

\* C34: two FlowTracker calls running in two threads never raise, and leave
\* the flow map in a state that one of the two sequential orders of the
\* same calls leaves.
C34_ThreadSafe == NoThreadRaised /\ MapIsSequential


\* C35: at most one SeamlessTextReplacer is ever constructed, and whenever
\* two threads have returned from get_replacer they returned the same object.
C35_OneReplacer ==
    /\ Cardinality({t \in Threads : callers[t].made}) <= 1
    /\ \A t, u \in Threads :
           (callers[t].pc = "done" /\ callers[u].pc = "done") =>
               callers[t].ret = callers[u].ret


\* The handle_new_signal tasks that have inserted their record.
Inserted == {t \in TaskIds : tasks[t].handler = "handle_new_signal" /\ tasks[t].rec_id # 0}

\* C36: as soon as a handle_new_signal task has its record, and so at every
\* later position up to and after the publication, a flow is registered
\* under the record's id exactly when the sender is identified, and then
\* with the sender as owner; a message is published only by a task that has
\* its record; and flows are registered under nothing but such record ids.
C36_FlowRegisteredWithRecord ==
    /\ \A t \in Inserted :
          /\ tasks[t].rec_id \in 1..Len(signals)
          /\ signals[tasks[t].rec_id].source_message_id = tasks[t].msg.id
          /\ tasks[t].rec_id \in DOMAIN active_flows <=> tasks[t].msg.sender_id > 0
          /\ tasks[t].msg.sender_id > 0 =>
                active_flows[tasks[t].rec_id].user_id = tasks[t].msg.sender_id
    /\ \A t \in TaskIds :
          (tasks[t].handler = "handle_new_signal"
              /\ (tasks[t].pc \in {"publish", "record"} \/ \E p \in Rows(published) : p.task = t))
          => t \in Inserted
    /\ \A k \in DOMAIN active_flows : \E t \in Inserted : tasks[t].rec_id = k

\* The signal of an unidentified sender and the signal of user 1 were both
\* published; only the record of the second has a flow, owned by user 1.
C36_Witness ==
    \E t, u \in Inserted :
        /\ tasks[t].msg.sender_id = 0 /\ tasks[u].msg.sender_id = 1
        /\ tasks[t].pc = "done" /\ tasks[u].pc = "done"
        /\ \E p, q \in Rows(published) : p.task = t /\ q.task = u
        /\ DOMAIN active_flows = {tasks[u].rec_id}
        /\ active_flows[tasks[u].rec_id].user_id = 1


\* C37: in every state of the tracker, a start_flow call sweeps exactly when it is the CLEANUP_INTERVAL-th since the last sweep,
\* the counter being below CLEANUP_INTERVAL between calls; the sweep leaves
\* the flows whose age is at most the TTL, the one just stored among them,
\* each as it was, and no other; a call that is not due leaves every flow,
\* expired ones too.
C37_SweepEveryNthStart ==
    /\ operation_counter \in 0..(CLEANUP_INTERVAL - 1)
    /\ \A s \in SignalIds, u \in UserIds :
          LET flows1 == [k \in (DOMAIN active_flows) \cup {s} |->
                            IF k = s THEN FlowInfo(u, now) ELSE active_flows[k]]
              due    == operation_counter + 1 = CLEANUP_INTERVAL
              swept  == SweepIfDue(flows1, operation_counter + 1, now)
              young  == {k \in DOMAIN flows1 : now - flows1[k].timestamp <= FLOW_TTL}
          IN /\ DOMAIN swept = IF due THEN young ELSE DOMAIN flows1
             /\ \A k \in DOMAIN swept : swept[k] = flows1[k]
             /\ s \in DOMAIN swept

\* The counter is back at zero after a sweep, time is past the TTL of a flow
\* started at time zero, and the only flow in the map was started just now.
C37_Witness ==
    /\ operation_counter = 0
    /\ now > FLOW_TTL
    /\ \E k \in SignalIds :
          /\ DOMAIN active_flows = {k}
          /\ active_flows[k].timestamp = now
    /\ \E k \in SignalIds : ft_grant[k] = None

\* C38: every colour the replacement loop samples is read from the bitmap
\* opened from the file while that bitmap still has the pixels it was opened
\* with, two samples for every replaced box, and no edit ever lands on that
\* bitmap: the edits are all on the working copy.
C38_ColoursFromOriginal ==
    mt_pc \in {"loop", "done"} =>
        /\ mt_heap[image] = OriginalPixels
        /\ Len(mt_samples) = 2 * Len(mt_replaced)
        /\ \A i \in 1..Len(mt_samples) :
               /\ mt_samples[i].from = image
               /\ mt_samples[i].pixels = OriginalPixels
               /\ mt_samples[i].box = mt_replaced[(i + 1) \div 2][1]
        /\ mt_result_image # 0 =>
               /\ mt_result_image # image
               /\ Len(mt_heap[mt_result_image]) = 2 * Len(mt_replaced)

\* Two boxes were replaced: the second one's colours were sampled after the
\* working copy had been cleared and drawn on for the first.
C38_Witness ==
    /\ mt_pc = "done"
    /\ Len(mt_replaced) = 2
    /\ Len(mt_samples) = 4
    /\ Len(mt_heap[mt_result_image]) = 4
    /\ mt_heap[image] = OriginalPixels

\* C39: once the handler has left its finally block after a download that
\* gave a file, neither the downloaded file nor an edited-image file is on
\* disk, whichever way the handler was left.
C39_FilesDeletedOnExit ==
    (md_pc = "returned" /\ md_media_info # None) => md_files = {}

\* C40: a signal row has a target_message_id exactly when its status is
\* POSTED, the id is that of a message published for the row's source
\* message, and every parent row the update handler has accepted is POSTED
\* with the id of such a message.
C40_TargetIffPosted ==
    /\ \A r \in Rows(signals) :
           /\ (r.target_message_id # 0) <=> (r.status = "POSTED")
           /\ r.target_message_id # 0 =>
                  \E p \in Rows(published) :
                      /\ p.id = r.target_message_id
                      /\ p.source_message_id = r.source_message_id
                      /\ p.reply_to = 0
    /\ \A t \in TaskIds :
           (tasks[t].handler = "handle_signal_update" /\ tasks[t].parent # None) =>
               /\ tasks[t].parent.status = "POSTED"
               /\ \E p \in Rows(published) : p.id = tasks[t].parent.target_message_id

\* The update handler has accepted a parent that handle_new_signal posted in
\* this run.
C40_Witness ==
    \E t \in TaskIds, p \in Rows(published) :
        /\ tasks[t].handler = "handle_signal_update"
        /\ tasks[t].parent # None
        /\ p.task # 0
        /\ p.id = tasks[t].parent.target_message_id
        /\ tasks[t].parent \in Rows(signals)

====
